---- MODULE Spec2Model ----
(***************************************************************************)
(* ScamShield: URL reputation analyzer, call scorer and message scorer.    *)
(* Text is modelled as a sequence of one-character strings, so that the    *)
(* substring, prefix and regular-expression tests of the source are        *)
(* computed character by character.                                        *)
(***************************************************************************)
EXTENDS Integers, Sequences, FiniteSets, TLC

(***************************************************************************)
(* Python str operations used by the source                                *)
(***************************************************************************)
Lower == {"a","b","c","d","e","f","g","h","i","j","k","l","m",
          "n","o","p","q","r","s","t","u","v","w","x","y","z"}
Upper == {"A","B","C","D","E","F","G","H","I","J","K","L","M",
          "N","O","P","Q","R","S","T","U","V","W","X","Y","Z"}
Digit == {"0","1","2","3","4","5","6","7","8","9"}
Alpha == Lower \cup Upper

\* str.lower() of one character
lower_char(c) ==
  LET UpperSeq == <<"A","B","C","D","E","F","G","H","I","J","K","L","M",
                    "N","O","P","Q","R","S","T","U","V","W","X","Y","Z">>
      LowerSeq == <<"a","b","c","d","e","f","g","h","i","j","k","l","m",
                    "n","o","p","q","r","s","t","u","v","w","x","y","z">>
  IN IF c \in Upper THEN LowerSeq[CHOOSE i \in 1..26 : UpperSeq[i] = c] ELSE c

\* str.lower()
str_lower(s) == [i \in 1..Len(s) |-> lower_char(s[i])]

\* int(c) for a decimal digit character
DigitVal(c) ==
  CASE c = "0" -> 0 [] c = "1" -> 1 [] c = "2" -> 2 [] c = "3" -> 3
    [] c = "4" -> 4 [] c = "5" -> 5 [] c = "6" -> 6 [] c = "7" -> 7
    [] c = "8" -> 8 [] c = "9" -> 9

\* p occurs in s at position i
OccursAt(s, p, i) ==
  /\ i >= 1
  /\ i + Len(p) - 1 <= Len(s)
  /\ \A j \in 1..Len(p) : s[i + j - 1] = p[j]

\* s.startswith(p)
StartsWith(s, p) == OccursAt(s, p, 1)

\* s.endswith(p)
EndsWith(s, p) == OccursAt(s, p, Len(s) - Len(p) + 1)

\* p in s (substring test)
Contains(s, p) == \E i \in 1..(Len(s) - Len(p) + 1) : OccursAt(s, p, i)

\* s.find(c) + 1 for a single character c of the set cs, 0 when absent
FirstOf(s, cs) ==
  IF \E i \in 1..Len(s) : s[i] \in cs
  THEN CHOOSE i \in 1..Len(s) : s[i] \in cs /\ \A j \in 1..(i-1) : s[j] \notin cs
  ELSE 0

\* s.rfind(c) + 1
LastOf(s, cs) ==
  IF \E i \in 1..Len(s) : s[i] \in cs
  THEN CHOOSE i \in 1..Len(s) : s[i] \in cs /\ \A j \in (i+1)..Len(s) : s[j] \notin cs
  ELSE 0

\* s.count(c) for a single character
str_count(s, c) == Cardinality({i \in 1..Len(s) : s[i] = c})

\* s.partition(c)[0] and s.partition(c)[2]
PartBefore(s, c) ==
  IF FirstOf(s, {c}) = 0 THEN s ELSE SubSeq(s, 1, FirstOf(s, {c}) - 1)
PartAfter(s, c) ==
  IF FirstOf(s, {c}) = 0 THEN <<>> ELSE SubSeq(s, FirstOf(s, {c}) + 1, Len(s))

\* s.rpartition(c)[2]
RPartAfter(s, c) ==
  IF LastOf(s, {c}) = 0 THEN s ELSE SubSeq(s, LastOf(s, {c}) + 1, Len(s))

\* s.split(c): the pieces between occurrences of the character c
RECURSIVE str_split(_, _)
str_split(s, c) ==
  IF FirstOf(s, {c}) = 0 THEN <<s>>
  ELSE <<PartBefore(s, c)>> \o str_split(PartAfter(s, c), c)

\* sep.join(parts)
RECURSIVE str_join(_, _)
str_join(parts, sep) ==
  IF Len(parts) = 0 THEN <<>>
  ELSE IF Len(parts) = 1 THEN parts[1]
  ELSE parts[1] \o sep \o str_join(Tail(parts), sep)

\* s.replace(c, '') for a single character c
RECURSIVE str_remove(_, _)
str_remove(s, cs) ==
  IF Len(s) = 0 THEN <<>>
  ELSE (IF s[1] \in cs THEN <<>> ELSE <<s[1]>>) \o str_remove(Tail(s), cs)

\* s.isdigit()
str_isdigit(s) == Len(s) > 0 /\ \A i \in 1..Len(s) : s[i] \in Digit

\* int(s) for a string of decimal digits
RECURSIVE str_int(_)
str_int(s) ==
  IF Len(s) = 0 THEN 0
  ELSE 10 * str_int(SubSeq(s, 1, Len(s) - 1)) + DigitVal(s[Len(s)])

\* the elements of a sequence
Range(f) == {f[i] : i \in 1..Len(f)}

\* [x for x in xs if x in keep]
RECURSIVE SelectIn(_, _)
SelectIn(xs, keep) ==
  IF Len(xs) = 0 THEN <<>>
  ELSE (IF xs[1] \in keep THEN <<xs[1]>> ELSE <<>>) \o SelectIn(Tail(xs), keep)

(***************************************************************************)
(* The fixed tables of the source                                          *)
(***************************************************************************)
\* URLChecker.URL_SHORTENERS
URL_SHORTENERS ==
  << <<"b","i","t",".","l","y">>,
     <<"t","i","n","y","u","r","l",".","c","o","m">>,
     <<"g","o","o",".","g","l">>,
     <<"o","w",".","l","y">>,
     <<"t",".","c","o">>,
     <<"i","s",".","g","d">>,
     <<"b","u","f","f",".","l","y">>,
     <<"a","d","f",".","l","y">>,
     <<"b","i","t",".","d","o">>,
     <<"s","h","o","r","t",".","l","i","n","k">> >>

\* URLChecker.SUSPICIOUS_KEYWORDS
SUSPICIOUS_KEYWORDS ==
  << <<"v","e","r","i","f","y">>,
     <<"a","c","c","o","u","n","t">>,
     <<"s","e","c","u","r","e">>,
     <<"u","p","d","a","t","e">>,
     <<"c","o","n","f","i","r","m">>,
     <<"l","o","g","i","n">>,
     <<"b","a","n","k","i","n","g">>,
     <<"p","a","s","s","w","o","r","d">>,
     <<"s","u","s","p","e","n","d">>,
     <<"l","i","m","i","t","e","d">>,
     <<"u","n","u","s","u","a","l">>,
     <<"c","l","i","c","k">>,
     <<"u","r","g","e","n","t">>,
     <<"a","l","e","r","t">>,
     <<"w","i","n","n","e","r">>,
     <<"p","r","i","z","e">>,
     <<"r","e","w","a","r","d">>,
     <<"f","r","e","e">>,
     <<"c","l","a","i","m">>,
     <<"r","e","f","u","n","d">>,
     <<"t","a","x">>,
     <<"g","o","v">>,
     <<"p","a","y","p","a","l">>,
     <<"a","m","a","z","o","n">> >>

\* URLChecker.TRUSTED_DOMAINS
TRUSTED_DOMAINS ==
  << <<"g","o","o","g","l","e",".","c","o","m">>,
     <<"f","a","c","e","b","o","o","k",".","c","o","m">>,
     <<"a","m","a","z","o","n",".","c","o","m">>,
     <<"a","p","p","l","e",".","c","o","m">>,
     <<"m","i","c","r","o","s","o","f","t",".","c","o","m">>,
     <<"l","i","n","k","e","d","i","n",".","c","o","m">>,
     <<"t","w","i","t","t","e","r",".","c","o","m">>,
     <<"i","n","s","t","a","g","r","a","m",".","c","o","m">>,
     <<"y","o","u","t","u","b","e",".","c","o","m">>,
     <<"w","i","k","i","p","e","d","i","a",".","o","r","g">>,
     <<"g","i","t","h","u","b",".","c","o","m">> >>

\* the entries of the public suffix list the model knows
PublicSuffixes ==
  << <<"c","o","m">>,
     <<"o","r","g">>,
     <<"n","e","t">>,
     <<"i","o">>,
     <<"c","o">>,
     <<"t","k">>,
     <<"m","l">>,
     <<"g","a">>,
     <<"c","f">>,
     <<"g","q">>,
     <<"x","y","z">>,
     <<"t","o","p">>,
     <<"l","y">>,
     <<"g","l">>,
     <<"g","d">>,
     <<"d","o">>,
     <<"l","i","n","k">>,
     <<"u","k">>,
     <<"c","o",".","u","k">> >>

\* a list of country codes without Nigeria and Indonesia
RISKY_COUNTRY_CODES_fewer ==
  << <<"+","3","7","5">>, <<"+","3","7","1">>, <<"+","2","5","4">>, <<"+","2","3","3">>,
     <<"+","8","8","0">>, <<"+","9","2">>, <<"+","8","4">> >>

\* CallAnalyzer.RISKY_COUNTRY_CODES
RISKY_COUNTRY_CODES ==
  << <<"+","3","7","5">>,
     <<"+","3","7","1">>,
     <<"+","2","5","4">>,
     <<"+","2","3","4">>,
     <<"+","2","3","3">>,
     <<"+","8","8","0">>,
     <<"+","9","2">>,
     <<"+","6","2">>,
     <<"+","8","4">> >>

\* SMSAnalyzer.SCAM_KEYWORDS
SCAM_KEYWORDS ==
  << <<"u","r","g","e","n","t">>,
     <<"i","m","m","e","d","i","a","t","e","l","y">>,
     <<"a","c","t"," ","n","o","w">>,
     <<"l","i","m","i","t","e","d"," ","t","i","m","e">>,
     <<"e","x","p","i","r","e","s">>,
     <<"h","u","r","r","y">>,
     <<"d","o","n","'","t"," ","d","e","l","a","y">>,
     <<"l","a","s","t"," ","c","h","a","n","c","e">>,
     <<"f","i","n","a","l"," ","n","o","t","i","c","e">>,
     <<"v","e","r","i","f","y"," ","a","c","c","o","u","n","t">>,
     <<"c","o","n","f","i","r","m"," ","i","d","e","n","t","i","t","y">>,
     <<"u","p","d","a","t","e"," ","p","a","y","m","e","n","t">>,
     <<"s","u","s","p","e","n","d","e","d">>,
     <<"u","n","u","s","u","a","l"," ","a","c","t","i","v","i","t","y">>,
     <<"u","n","a","u","t","h","o","r","i","z","e","d">>,
     <<"b","l","o","c","k","e","d">>,
     <<"l","o","c","k","e","d">>,
     <<"r","e","f","u","n","d">>,
     <<"r","e","b","a","t","e">>,
     <<"c","l","a","i","m">>,
     <<"p","r","i","z","e">>,
     <<"w","i","n","n","e","r">>,
     <<"c","o","n","g","r","a","t","u","l","a","t","i","o","n","s">>,
     <<"l","e","g","a","l"," ","a","c","t","i","o","n">>,
     <<"a","r","r","e","s","t">>,
     <<"w","a","r","r","a","n","t">>,
     <<"l","a","w"," ","e","n","f","o","r","c","e","m","e","n","t">>,
     <<"s","u","s","p","e","n","d">>,
     <<"t","e","r","m","i","n","a","t","e">>,
     <<"c","a","n","c","e","l">>,
     <<"p","e","n","a","l","t","i","e","s">>,
     <<"c","l","i","c","k"," ","h","e","r","e">>,
     <<"c","l","i","c","k"," ","l","i","n","k">>,
     <<"c","o","n","f","i","r","m">>,
     <<"v","e","r","i","f","y">>,
     <<"v","a","l","i","d","a","t","e">>,
     <<"s","o","c","i","a","l"," ","s","e","c","u","r","i","t","y">>,
     <<"s","s","n">>,
     <<"p","a","s","s","w","o","r","d">>,
     <<"p","i","n">>,
     <<"c","r","e","d","i","t"," ","c","a","r","d">>,
     <<"f","r","e","e">>,
     <<"g","i","f","t"," ","c","a","r","d">>,
     <<"c","a","s","h"," ","p","r","i","z","e">>,
     <<"s","e","l","e","c","t","e","d">>,
     <<"c","h","o","s","e","n">>,
     <<"t","h","o","u","s","a","n","d","s">>,
     <<"m","i","l","l","i","o","n">>,
     <<"i","n","h","e","r","i","t","a","n","c","e">>,
     <<"b","a","n","k">>,
     <<"p","a","y","p","a","l">>,
     <<"a","m","a","z","o","n">>,
     <<"i","r","s">>,
     <<"t","a","x">>,
     <<"g","o","v","e","r","n","m","e","n","t">>,
     <<"f","e","d","e","r","a","l">>,
     <<"s","o","c","i","a","l"," ","s","e","c","u","r","i","t","y">>,
     <<"m","e","d","i","c","a","r","e">> >>

\* SMSAnalyzer.LEGITIMATE_KEYWORDS
LEGITIMATE_KEYWORDS ==
  << <<"u","n","s","u","b","s","c","r","i","b","e">>,
     <<"o","p","t","-","o","u","t">>,
     <<"t","e","r","m","s"," ","a","n","d"," ","c","o","n","d","i","t","i","o","n","s">>,
     <<"p","r","i","v","a","c","y"," ","p","o","l","i","c","y">> >>

(***************************************************************************)
(* The texts the model analyzes                                            *)
(***************************************************************************)
\* "https://google.com"
U_google == <<"h","t","t","p","s",":","/","/","g","o","o","g","l","e",".","c","o","m">>
\* "http://192.168.1.1/login"
U_ip == <<"h","t","t","p",":","/","/","1","9","2",".","1","6","8",".","1",".","1","/","l","o","g","i","n">>
\* "http://secure-banking-verify.tk/account"
U_tk == <<"h","t","t","p",":","/","/","s","e","c","u","r","e","-","b","a","n","k","i","n","g","-","v","e","r","i","f","y",".","t","k","/","a","c","c","o","u","n","t">>
\* "http://example.com:99999/"
U_port_range == <<"h","t","t","p",":","/","/","e","x","a","m","p","l","e",".","c","o","m",":","9","9","9","9","9","/">>
\* "http://[bad"
U_bracket == <<"h","t","t","p",":","/","/","[","b","a","d">>
(***************************************************************************)
(* urllib.parse.urlparse and tldextract.extract, as analyze_url uses them  *)
(***************************************************************************)
HTTP_PREFIX == <<"h","t","t","p",":","/","/">>
HTTPS_PREFIX == <<"h","t","t","p","s",":","/","/">>

\* url_checker.py:57-58: default the scheme to http://
with_scheme(url) ==
  IF StartsWith(url, HTTP_PREFIX) \/ StartsWith(url, HTTPS_PREFIX)
  THEN url ELSE HTTP_PREFIX \o url

\* urlparse(url) for a url that starts with http:// or https://.
\* raised is TRUE when urlsplit raises ValueError("Invalid IPv6 URL"): the
\* netloc holds one of '[' and ']' without the other.
urlparse(url) ==
  LET scheme == PartBefore(url, ":")
      rest   == SubSeq(url, Len(scheme) + 4, Len(url))
      delim  == FirstOf(rest, {"/", "?", "#"})
      netloc == IF delim = 0 THEN rest ELSE SubSeq(rest, 1, delim - 1)
      tail   == IF delim = 0 THEN <<>> ELSE SubSeq(rest, delim, Len(rest))
      nofrag == PartBefore(tail, "#")
      lb     == FirstOf(netloc, {"["}) # 0
      rb     == FirstOf(netloc, {"]"}) # 0
  IN [raised |-> (lb /\ ~rb) \/ (rb /\ ~lb),
      scheme |-> scheme,
      netloc |-> netloc,
      path   |-> PartBefore(nofrag, "?"),
      query  |-> PartAfter(nofrag, "?")]

\* ParseResult.port: kind "none" for None, "int" with its value, "raise"
\* for the ValueError of a non-numeric or out-of-range port.
parsed_port(netloc) ==
  LET hostinfo == RPartAfter(netloc, "@")
      port == IF Len(hostinfo) > 0 /\ hostinfo[1] = "["
              THEN PartAfter(PartAfter(hostinfo, "]"), ":")
              ELSE PartAfter(hostinfo, ":")
  IN IF Len(port) = 0 THEN [kind |-> "none", val |-> 0, err |-> ""]
     ELSE IF ~str_isdigit(port)
     THEN [kind |-> "raise", val |-> 0, err |-> "Port could not be cast to integer value"]
     ELSE IF str_int(port) > 65535
     THEN [kind |-> "raise", val |-> 0, err |-> "Port out of range 0-65535"]
     ELSE [kind |-> "int", val |-> str_int(port), err |-> ""]

\* len(parse_qs(query)): the distinct names of the '&'-separated pairs that
\* have an '=' and a non-empty value
parse_qs_len(query) ==
  LET pairs == str_split(query, "&")
      kept  == {i \in 1..Len(pairs) :
                  /\ FirstOf(pairs[i], {"="}) # 0
                  /\ Len(PartAfter(pairs[i], "=")) > 0}
  IN Cardinality({PartBefore(pairs[i], "=") : i \in kept})

\* tldextract's host of a url: scheme, path, query, fragment, userinfo and
\* port removed, trailing dots stripped
lenient_netloc(url) ==
  LET schemeless == IF StartsWith(url, HTTP_PREFIX) THEN SubSeq(url, 8, Len(url))
                    ELSE IF StartsWith(url, HTTPS_PREFIX) THEN SubSeq(url, 9, Len(url))
                    ELSE url
      after_userinfo == RPartAfter(PartBefore(PartBefore(PartBefore(
                            schemeless, "/"), "?"), "#"), "@")
      bracketed == /\ Len(after_userinfo) > 0
                   /\ after_userinfo[1] = "["
                   /\ FirstOf(after_userinfo, {"]"}) # 0
      hostname == PartBefore(after_userinfo, ":")
      RECURSIVE rstrip_dots(_)
      rstrip_dots(h) == IF Len(h) > 0 /\ h[Len(h)] = "."
                        THEN rstrip_dots(SubSeq(h, 1, Len(h) - 1)) ELSE h
  IN IF bracketed THEN PartBefore(after_userinfo, "]") \o <<"]">>
     ELSE rstrip_dots(hostname)

\* tldextract's looks_like_ip: a dotted quad of numbers 0..255
looks_like_ip(host) ==
  LET labels == str_split(host, ".")
  IN /\ Len(labels) = 4
     /\ \A i \in 1..4 : /\ str_isdigit(labels[i])
                        /\ Len(labels[i]) <= 3
                        /\ str_int(labels[i]) <= 255

\* tldextract's looks_like_ipv6, approximated: hexadecimal groups and colons
looks_like_ipv6(s) ==
  /\ FirstOf(s, {":"}) # 0
  /\ \A i \in 1..Len(s) :
       s[i] \in Digit \cup {":", "a", "b", "c", "d", "e", "f",
                                 "A", "B", "C", "D", "E", "F"}

\* tldextract.extract(url): subdomain, domain and suffix of the host.  The
\* suffix is the longest public suffix the labels of the host end with.
tldextract_extract(url) ==
  LET IsSuffixAt(labels, j) ==
        \E k \in 1..Len(PublicSuffixes) :
           PublicSuffixes[k] = str_join(SubSeq(labels, j, Len(labels)), <<".">>)
      suffix_index(labels) ==
        IF \E i \in 1..Len(labels) : IsSuffixAt(labels, i)
        THEN CHOOSE i \in 1..Len(labels) :
               IsSuffixAt(labels, i) /\ \A m \in 1..(i-1) : ~IsSuffixAt(labels, m)
        ELSE Len(labels) + 1
      is_ipv6(host) == /\ Len(host) >= 4
                       /\ host[1] = "["
                       /\ host[Len(host)] = "]"
                       /\ looks_like_ipv6(SubSeq(host, 2, Len(host) - 1))
      parts(host, labels, j) ==
        IF is_ipv6(host) \/ (j = Len(labels) + 1 /\ looks_like_ip(host))
        THEN [subdomain |-> <<>>, domain |-> host, suffix |-> <<>>]
        ELSE [subdomain |-> IF j >= 3 THEN str_join(SubSeq(labels, 1, j - 2), <<".">>)
                            ELSE <<>>,
              domain    |-> IF j >= 2 THEN labels[j - 1] ELSE <<>>,
              suffix    |-> str_join(SubSeq(labels, j, Len(labels)), <<".">>)]
      of_labels(host, labels) == parts(host, labels, suffix_index(labels))
      of_host(host) == of_labels(host, str_split(host, "."))
  IN of_host(lenient_netloc(url))

(***************************************************************************)
(* URLChecker (url_checker.py)                                             *)
(***************************************************************************)
\* URLChecker._is_ip_address
_is_ip_address(netloc) ==
  LET host   == str_split(netloc, ":")[1]
      labels == str_split(host, ".")
      ipv4   == /\ Len(labels) = 4
                /\ \A i \in 1..4 : str_isdigit(labels[i]) /\ Len(labels[i]) <= 3
  IN \/ ipv4
     \/ (FirstOf(host, {":"}) # 0 /\ FirstOf(host, {"["}) # 0)

\* URLChecker._is_url_shortener
_is_url_shortener(domain) == domain \in Range(URL_SHORTENERS)

\* URLChecker._is_trusted_domain
_is_trusted_domain(domain) == domain \in Range(TRUSTED_DOMAINS)

\* URLChecker._check_suspicious_keywords: the keywords found, in list order
_check_suspicious_keywords(url) ==
  SelectIn(SUSPICIOUS_KEYWORDS, {k \in Range(SUSPICIOUS_KEYWORDS) : Contains(url, k)})

\* f"{extracted.domain}.{extracted.suffix}"
registrable_domain(extracted) == extracted.domain \o <<".">> \o extracted.suffix

\* extracted.subdomain.split('.') if extracted.subdomain else []
subdomain_labels(extracted) ==
  IF Len(extracted.subdomain) = 0 THEN <<>> ELSE str_split(extracted.subdomain, ".")

\* str(n) for n >= 0
RECURSIVE int_str(_)
int_str(n) ==
  LET d == <<"0","1","2","3","4","5","6","7","8","9">>
  IN IF n < 10 THEN <<d[n + 1]>> ELSE int_str(n \div 10) \o <<d[(n % 10) + 1]>>

\* The checks of analyze_url in the order the code makes them
CheckOrder == <<"ip", "https", "shortener", "trusted", "keywords", "netloc_len",
                "subdomains", "at", "hyphens", "digits", "path_len", "query",
                "port", "tld">>

\* The check raises: only parsed.port does (line 129)
CheckRaises(c, parsed) ==
  c = "port" /\ parsed_port(parsed.netloc).kind = "raise"

\* The condition of each check; url already carries its scheme, parsed and
\* extracted are the values of lines 61 and 62
CheckTriggered(c, url, parsed, extracted) ==
  LET risky_tlds ==
        << <<".","t","k">>,
           <<".","m","l">>,
           <<".","g","a">>,
           <<".","c","f">>,
           <<".","g","q">>,
           <<".","x","y","z">>,
           <<".","t","o","p">> >>
      nonstandard(port) == port.kind = "int" /\ port.val # 0 /\ port.val \notin {80, 443}
  IN CASE c = "ip"         -> _is_ip_address(parsed.netloc)
       [] c = "https"      -> parsed.scheme # <<"h","t","t","p","s">>
       [] c = "shortener"  -> _is_url_shortener(registrable_domain(extracted))
       [] c = "trusted"    -> _is_trusted_domain(registrable_domain(extracted))
       [] c = "keywords"   -> Len(_check_suspicious_keywords(str_lower(url))) > 0
       [] c = "netloc_len" -> Len(parsed.netloc) > 40
       [] c = "subdomains" -> Len(subdomain_labels(extracted)) > 2
       [] c = "at"         -> FirstOf(url, {"@"}) # 0
       [] c = "hyphens"    -> str_count(parsed.netloc, "-") > 2
       [] c = "digits"     -> \E i \in 1..Len(extracted.domain) : extracted.domain[i] \in Digit
       [] c = "path_len"   -> Len(parsed.path) > 100
       [] c = "query"      -> parse_qs_len(parsed.query) > 5
       [] c = "port"       -> nonstandard(parsed_port(parsed.netloc))
       [] c = "tld"        -> \E k \in 1..Len(risky_tlds) :
                                 EndsWith(extracted.suffix, Tail(risky_tlds[k]))

\* The amounts with a flat 10 for the keywords, whatever their number
CheckDelta_flat_keywords(c, url) ==
  CASE c = "ip"         -> 30
    [] c = "https"      -> 15
    [] c = "shortener"  -> 25
    [] c = "trusted"    -> -30
    [] c = "keywords"   -> 10
    [] c = "netloc_len" -> 15
    [] c = "subdomains" -> 20
    [] c = "at"         -> 35
    [] c = "hyphens"    -> 15
    [] c = "digits"     -> 10
    [] c = "path_len"   -> 10
    [] c = "query"      -> 15
    [] c = "port"       -> 20
    [] c = "tld"        -> 25

\* The amount a triggered check changes risk_score by
CheckDelta(c, url) ==
  CASE c = "ip"         -> 30
    [] c = "https"      -> 15
    [] c = "shortener"  -> 25
    [] c = "trusted"    -> -30
    [] c = "keywords"   -> Len(_check_suspicious_keywords(str_lower(url))) * 10
    [] c = "netloc_len" -> 15
    [] c = "subdomains" -> 20
    [] c = "at"         -> 35
    [] c = "hyphens"    -> 15
    [] c = "digits"     -> 10
    [] c = "path_len"   -> 10
    [] c = "query"      -> 15
    [] c = "port"       -> 20
    [] c = "tld"        -> 25

Max(a, b) == IF a >= b THEN a ELSE b
Min(a, b) == IF a <= b THEN a ELSE b

\* the trusted-domain reduction without the stop at 0
ApplyCheck_unfloored(c, delta, risk_score) == risk_score + delta

\* risk_score after a triggered check that changes it by delta: the
\* trusted-domain reduction stops at 0 (line 82)
ApplyCheck(c, delta, risk_score) ==
  IF c = "trusted" THEN Max(0, risk_score + delta) ELSE risk_score + delta

CheckScore(c, url, risk_score) == ApplyCheck(c, CheckDelta(c, url), risk_score)

\* The factor string a triggered check appends: its fixed text and the
\* interpolated part
CheckFactor(c, url, parsed, extracted) ==
  CASE c = "ip"         -> [msg |-> "Uses IP address instead of domain name", arg |-> <<>>]
    [] c = "https"      -> [msg |-> "Not using secure HTTPS protocol", arg |-> <<>>]
    [] c = "shortener"  -> [msg |-> "Uses URL shortening service (hides destination)", arg |-> <<>>]
    [] c = "trusted"    -> [msg |-> "Domain is on trusted list", arg |-> <<>>]
    [] c = "keywords"   -> [msg |-> "Contains suspicious keywords: ",
                            arg |-> str_join(_check_suspicious_keywords(str_lower(url)), <<",", " ">>)]
    [] c = "netloc_len" -> [msg |-> "Unusually long domain name", arg |-> <<>>]
    [] c = "subdomains" -> [msg |-> "Multiple subdomains detected",
                            arg |-> int_str(Len(subdomain_labels(extracted)))]
    [] c = "at"         -> [msg |-> "Contains @ symbol (potential domain masking)", arg |-> <<>>]
    [] c = "hyphens"    -> [msg |-> "Excessive hyphens in domain", arg |-> <<>>]
    [] c = "digits"     -> [msg |-> "Contains numbers in domain name", arg |-> <<>>]
    [] c = "path_len"   -> [msg |-> "Unusually long URL path", arg |-> <<>>]
    [] c = "query"      -> [msg |-> "Many query parameters",
                            arg |-> int_str(parse_qs_len(parsed.query))]
    [] c = "port"       -> [msg |-> "Uses non-standard port: ",
                            arg |-> int_str(parsed_port(parsed.netloc).val)]
    [] c = "tld"        -> [msg |-> "Uses risky top-level domain",
                            arg |-> extracted.suffix]

\* The factor strings checks i..n of a url append, in check order
RECURSIVE Factors(_, _, _, _, _)
Factors(url, parsed, extracted, i, n) ==
  IF i > n THEN <<>>
  ELSE (IF CheckTriggered(CheckOrder[i], url, parsed, extracted)
        THEN <<CheckFactor(CheckOrder[i], url, parsed, extracted)>> ELSE <<>>)
       \o Factors(url, parsed, extracted, i + 1, n)

\* risk_score after checks i.. of analyze_url, from the score before them
RECURSIVE ScoreFrom(_, _, _, _, _)
ScoreFrom(url, parsed, extracted, i, risk_score) ==
  IF i > Len(CheckOrder) THEN risk_score
  ELSE ScoreFrom(url, parsed, extracted, i + 1,
                 IF CheckTriggered(CheckOrder[i], url, parsed, extracted)
                 THEN CheckScore(CheckOrder[i], url, risk_score) ELSE risk_score)

\* Lines 64-153 of analyze_url run alone, from the values of lines 57-62:
\* the checks, the cap and the returned dictionary, or the ValueError of
\* parsed.port.  appended holds the factor strings the call has appended to
\* its list when it ends (all of them, or those before the raise);
\* risk_factors of the dictionary is the content of that list.
analyze_url_checks(url, parsed, extracted) ==
  LET port_index == CHOOSE i \in 1..Len(CheckOrder) : CheckOrder[i] = "port"
      result(domain, risk_score, factors) ==
        [raised        |-> FALSE,
         url           |-> url,
         domain        |-> domain,
         subdomain     |-> extracted.subdomain,
         tld           |-> extracted.suffix,
         is_https      |-> parsed.scheme = <<"h","t","t","p","s">>,
         is_shortened  |-> _is_url_shortener(domain),
         is_trusted    |-> _is_trusted_domain(domain),
         risk_score    |-> risk_score,
         risk_factors  |-> factors,
         is_suspicious |-> risk_score >= 50]
      returned(value) ==
        [raised |-> FALSE, error |-> "", appended |-> value.risk_factors, value |-> value]
  IN IF CheckRaises("port", parsed)
     THEN [raised   |-> TRUE,
           error    |-> parsed_port(parsed.netloc).err,
           appended |-> Factors(url, parsed, extracted, 1, port_index - 1),
           value    |-> [raised |-> TRUE]]
     ELSE returned(result(registrable_domain(extracted),
                          Min(100, ScoreFrom(url, parsed, extracted, 1, 0)),
                          Factors(url, parsed, extracted, 1, Len(CheckOrder))))

\* Lines 61-153 of analyze_url: urlparse raises ValueError (line 61), or
\* tldextract.extract and the checks follow
analyze_url_parsed(url, parsed) ==
  IF parsed.raised
  THEN [raised |-> TRUE, error |-> "Invalid IPv6 URL", appended |-> <<>>,
        value |-> [raised |-> TRUE]]
  ELSE analyze_url_checks(url, parsed, tldextract_extract(url))

\* URLChecker.analyze_url run alone: whether it raises, str(e) of the
\* ValueError, the factor strings appended to the list, and the returned
\* dictionary
analyze_url(url0) ==
  LET parse(url) == analyze_url_parsed(url, urlparse(url))
  IN parse(with_scheme(url0))

(***************************************************************************)
(* Scores.  An unrounded score is the exact rational num/den (den > 0); a  *)
(* backend probability is a rational too.  The risk_score of a verdict is  *)
(* round(score, 2), held in hundredths of a point.                         *)
(***************************************************************************)
Q(n, d) == [num |-> n, den |-> d]

\* q >= k for an integer k
QGe(q, k) == q.num >= k * q.den

\* q * 100 and q / 100
QTimes100(q) == Q(q.num * 100, q.den)
QDiv100(q) == Q(q.num, q.den * 100)

\* min(100, max(0, q))
QClamp(q) == IF q.num < 0 THEN Q(0, 1) ELSE IF q.num > 100 * q.den THEN Q(100, 1) ELSE q

\* round(q, 2) in hundredths.  A value exactly half way between two
\* hundredths goes to either neighbour: which one depends on the binary
\* representation of the float.
Round2(q) ==
  LET f == (100 * q.num) \div q.den
      r == 100 * q.num - f * q.den
  IN IF 2 * r < q.den THEN {f} ELSE IF 2 * r > q.den THEN {f + 1} ELSE {f, f + 1}

B2I(b) == IF b THEN 1 ELSE 0

(***************************************************************************)
(* CallAnalyzer (call_analyzer.py)                                         *)
(***************************************************************************)
\* CallAnalyzer._check_repeated_digits
_check_repeated_digits(number) ==
  LET clean == str_remove(number, {"+"})
  IN \E d \in Digit : str_count(clean, d) >= 4

\* CallAnalyzer._check_sequential_digits
_check_sequential_digits(number) ==
  LET sequences ==
        << <<"0","1","2","3">>,
           <<"1","2","3","4">>,
           <<"2","3","4","5">>,
           <<"3","4","5","6">>,
           <<"4","5","6","7">>,
           <<"5","6","7","8">>,
           <<"6","7","8","9">>,
           <<"3","2","1","0">>,
           <<"4","3","2","1">>,
           <<"5","4","3","2">>,
           <<"6","5","4","3">>,
           <<"7","6","5","4">>,
           <<"8","7","6","5">>,
           <<"9","8","7","6">> >>
      clean == str_remove(number, {"+"})
  IN \E k \in 1..Len(sequences) : Contains(clean, sequences[k])

\* _extract_features whose short_call runs to 30 seconds inclusive
Call_extract_features_inclusive(phone_number, duration, call_frequency, is_unknown, time_of_day) ==
  LET time_risk_map(key) ==
        CASE key = "early_morning"  -> 3
          [] key = "business_hours" -> 1
          [] key = "evening"        -> 2
          [] key = "night"          -> 3
          [] OTHER                  -> 2
      clean_number == str_remove(phone_number, {" ", "-", "(", ")"})
      is_international == \/ StartsWith(clean_number, <<"+">>)
                          \/ (Len(clean_number) > 10 /\ StartsWith(clean_number, <<"0", "0">>))
      is_risky_country == \E k \in 1..Len(RISKY_COUNTRY_CODES) :
                             StartsWith(clean_number, RISKY_COUNTRY_CODES[k])
      time_risk == time_risk_map(time_of_day)
  IN [duration                  |-> duration,
      call_frequency            |-> call_frequency,
      is_unknown                |-> B2I(is_unknown),
      is_international          |-> B2I(is_international),
      is_risky_country          |-> B2I(is_risky_country),
      very_short_call           |-> B2I(duration < 10),
      short_call                |-> B2I(10 <= duration /\ duration <= 30),
      normal_call               |-> B2I(30 <= duration /\ duration < 300),
      long_call                 |-> B2I(duration >= 300),
      single_call               |-> B2I(call_frequency = 1),
      repeated_calls            |-> B2I(call_frequency > 1),
      excessive_calls           |-> B2I(call_frequency > 5),
      has_repeated_digits       |-> B2I(_check_repeated_digits(clean_number)),
      has_sequential_digits     |-> B2I(_check_sequential_digits(clean_number)),
      number_length             |-> Len(clean_number),
      time_risk                 |-> time_risk,
      suspicious_time           |-> B2I(time_risk >= 3),
      unknown_and_international |-> B2I(is_unknown /\ is_international),
      short_and_repeated        |-> B2I(duration < 30 /\ call_frequency > 1)]

\* CallAnalyzer._extract_features
Call_extract_features(phone_number, duration, call_frequency, is_unknown, time_of_day) ==
  LET time_risk_map(key) ==
        CASE key = "early_morning"  -> 3
          [] key = "business_hours" -> 1
          [] key = "evening"        -> 2
          [] key = "night"          -> 3
          [] OTHER                  -> 2
      clean_number == str_remove(phone_number, {" ", "-", "(", ")"})
      is_international == \/ StartsWith(clean_number, <<"+">>)
                          \/ (Len(clean_number) > 10 /\ StartsWith(clean_number, <<"0", "0">>))
      is_risky_country == \E k \in 1..Len(RISKY_COUNTRY_CODES) :
                             StartsWith(clean_number, RISKY_COUNTRY_CODES[k])
      time_risk == time_risk_map(time_of_day)
  IN [duration                  |-> duration,
      call_frequency            |-> call_frequency,
      is_unknown                |-> B2I(is_unknown),
      is_international          |-> B2I(is_international),
      is_risky_country          |-> B2I(is_risky_country),
      very_short_call           |-> B2I(duration < 10),
      short_call                |-> B2I(10 <= duration /\ duration < 30),
      normal_call               |-> B2I(30 <= duration /\ duration < 300),
      long_call                 |-> B2I(duration >= 300),
      single_call               |-> B2I(call_frequency = 1),
      repeated_calls            |-> B2I(call_frequency > 1),
      excessive_calls           |-> B2I(call_frequency > 5),
      has_repeated_digits       |-> B2I(_check_repeated_digits(clean_number)),
      has_sequential_digits     |-> B2I(_check_sequential_digits(clean_number)),
      number_length             |-> Len(clean_number),
      time_risk                 |-> time_risk,
      suspicious_time           |-> B2I(time_risk >= 3),
      unknown_and_international |-> B2I(is_unknown /\ is_international),
      short_and_repeated        |-> B2I(duration < 30 /\ call_frequency > 1)]

\* _calculate_rule_based_score whose frequency branches are two separate
\* ifs: an excessive frequency adds 25 and 10
Call_calculate_rule_based_score_both(features) ==
  LET score ==
          (IF features.is_unknown # 0 THEN 20 ELSE 0)
        + (IF features.unknown_and_international # 0 THEN 25 ELSE 0)
        + (IF features.is_risky_country # 0 THEN 30 ELSE 0)
        + (IF features.very_short_call # 0 THEN 15 ELSE 0)
        + (IF features.excessive_calls # 0 THEN 25 ELSE 0)
        + (IF features.repeated_calls # 0 THEN 10 ELSE 0)
        + (IF features.has_repeated_digits # 0 THEN 10 ELSE 0)
        + (IF features.has_sequential_digits # 0 THEN 10 ELSE 0)
        + (IF features.suspicious_time # 0 THEN 15 ELSE 0)
        + (IF features.short_and_repeated # 0 THEN 20 ELSE 0)
        - (IF features.normal_call # 0 /\ features.is_unknown = 0 THEN 15 ELSE 0)
        - (IF features.long_call # 0 THEN 10 ELSE 0)
  IN Q(Min(100, Max(0, score)), 1)

\* CallAnalyzer._calculate_rule_based_score
Call_calculate_rule_based_score(features) ==
  LET score ==
          (IF features.is_unknown # 0 THEN 20 ELSE 0)
        + (IF features.unknown_and_international # 0 THEN 25 ELSE 0)
        + (IF features.is_risky_country # 0 THEN 30 ELSE 0)
        + (IF features.very_short_call # 0 THEN 15 ELSE 0)
        + (IF features.excessive_calls # 0 THEN 25
           ELSE IF features.repeated_calls # 0 THEN 10 ELSE 0)
        + (IF features.has_repeated_digits # 0 THEN 10 ELSE 0)
        + (IF features.has_sequential_digits # 0 THEN 10 ELSE 0)
        + (IF features.suspicious_time # 0 THEN 15 ELSE 0)
        + (IF features.short_and_repeated # 0 THEN 20 ELSE 0)
        - (IF features.normal_call # 0 /\ features.is_unknown = 0 THEN 15 ELSE 0)
        - (IF features.long_call # 0 THEN 10 ELSE 0)
  IN Q(Min(100, Max(0, score)), 1)

\* What one prediction of the scoring backend does: it returns the
\* number p (a rational), or it raises (a model error, or a value that
\* float() rejects).  NoBackend stands for self.model being None.
BackendReturns(p) == [kind |-> "prob", p |-> p]
BackendRaises == [kind |-> "raise", p |-> Q(0, 1)]
NoBackend == [kind |-> "absent", p |-> Q(0, 1)]

\* _predict_with_model whose except branch returns the rule-based score
\* without the division by 100
Call_predict_with_model_unscaled(features, backend) ==
  IF backend.kind = "prob" THEN backend.p
  ELSE Call_calculate_rule_based_score(features)

\* CallAnalyzer._predict_with_model: the probability returned
Call_predict_with_model(features, backend) ==
  IF backend.kind = "prob" THEN backend.p
  ELSE QDiv100(Call_calculate_rule_based_score(features))

\* CallAnalyzer._get_risk_level
Call_get_risk_level(risk_score) ==
  IF QGe(risk_score, 75) THEN "CRITICAL"
  ELSE IF QGe(risk_score, 50) THEN "HIGH"
  ELSE IF QGe(risk_score, 25) THEN "MEDIUM"
  ELSE "LOW"

\* one explanation sentence: its fixed text and the interpolated number
Sentence(msg) == [msg |-> msg, arg |-> <<>>]
SentenceN(msg, n) == [msg |-> msg, arg |-> int_str(n)]

\* CallAnalyzer._generate_explanation
Call_generate_explanation(features) ==
  LET explanations ==
           (IF features.is_unknown # 0
            THEN <<Sentence("Number is not in your contacts")>> ELSE <<>>)
        \o (IF features.is_international # 0
            THEN <<Sentence("International call")>> ELSE <<>>)
        \o (IF features.is_risky_country # 0
            THEN <<Sentence("Call originates from high-risk country")>> ELSE <<>>)
        \o (IF features.very_short_call # 0
            THEN <<Sentence("Very short call duration (possible robocall)")>> ELSE <<>>)
        \o (IF features.excessive_calls # 0
            THEN <<SentenceN("Excessive call frequency", features.call_frequency)>>
            ELSE IF features.repeated_calls # 0
            THEN <<SentenceN("Multiple calls from this number", features.call_frequency)>>
            ELSE <<>>)
        \o (IF features.has_repeated_digits # 0
            THEN <<Sentence("Number contains repeated digit patterns")>> ELSE <<>>)
        \o (IF features.has_sequential_digits # 0
            THEN <<Sentence("Number contains sequential digits")>> ELSE <<>>)
        \o (IF features.suspicious_time # 0
            THEN <<Sentence("Call at unusual time (late night/early morning)")>> ELSE <<>>)
  IN IF Len(explanations) = 0
     THEN <<Sentence("No significant risk indicators detected")>>
     ELSE explanations

\* CallAnalyzer._get_recommendations
Call_get_recommendations(risk_level, features) ==
     (IF risk_level \in {"CRITICAL", "HIGH"}
      THEN <<"Do NOT answer calls from this number",
             "Block this number immediately",
             "Do NOT call back",
             "Report to your phone carrier or FTC">>
           \o (IF features.is_international # 0
               THEN <<"Enable international call blocking on your device">> ELSE <<>>)
      ELSE IF risk_level = "MEDIUM"
      THEN <<"Exercise caution when answering",
             "Do not provide personal information",
             "Ask for caller credentials and verify independently",
             "Consider blocking if they call repeatedly">>
      ELSE <<"Call appears relatively safe",
             "Still verify identity if they request sensitive information">>)
  \o <<"Never share passwords, PINs, or account numbers over the phone",
       "Legitimate organizations will not pressure you for immediate action">>

\* The unrounded risk_score of analyze_call (lines 70-75): model is "loaded"
\* or "none"
Call_risk_score(features, model, backend) ==
  IF model = "loaded"
  THEN QTimes100(Call_predict_with_model(features, backend))
  ELSE Call_calculate_rule_based_score(features)

\* CallAnalyzer.analyze_call: the verdicts it can return (one for each
\* rounding of the score)
analyze_call(phone_number, duration, call_frequency, is_unknown, time_of_day, model, backend) ==
  LET features == Call_extract_features(phone_number, duration, call_frequency,
                                        is_unknown, time_of_day)
      risk_score == Call_risk_score(features, model, backend)
      is_scam == QGe(risk_score, 50)
      risk_level == Call_get_risk_level(risk_score)
  IN {[phone_number     |-> phone_number,
       duration         |-> duration,
       call_frequency   |-> call_frequency,
       is_unknown       |-> is_unknown,
       is_international |-> features.is_international,
       risk_score       |-> rounded,
       risk_level       |-> risk_level,
       is_scam          |-> is_scam,
       features         |-> features,
       explanation      |-> Call_generate_explanation(features),
       recommendations  |-> Call_get_recommendations(risk_level, features)]
      : rounded \in Round2(risk_score)}

(***************************************************************************)
(* extract_urls (utils.py)                                                 *)
(***************************************************************************)
\* The characters one step of url_pattern accepts: letters, digits, the
\* range $-_ (ASCII 36..95), and @ . & + ! * \ ( ) ,
UrlChar ==
  Alpha \cup Digit \cup
  {"$", "%", "&", "'", "(", ")", "*", "+", ",", "-", ".", "/", ":", ";", "<",
   "=", ">", "?", "@", "[", "\\", "]", "^", "_", "!"}

\* [a-zA-Z0-9-]
LabelChar == Alpha \cup Digit \cup {"-"}

\* \s
Whitespace == {" "}

\* the last index of the run of characters of cs that starts at i (i - 1
\* when text[i] is not in cs)
RunEnd(text, i, cs) ==
  IF \E j \in i..Len(text) : text[j] \notin cs
  THEN (CHOOSE j \in i..Len(text) :
          text[j] \notin cs /\ \A k \in i..(j-1) : text[k] \in cs) - 1
  ELSE Len(text)

\* the last index of the run of characters outside cs that starts at i
RunEndNot(text, i, cs) ==
  IF \E j \in i..Len(text) : text[j] \in cs
  THEN (CHOOSE j \in i..Len(text) :
          text[j] \in cs /\ \A k \in i..(j-1) : text[k] \notin cs) - 1
  ELSE Len(text)

\* url_pattern matched at position i: the index of the last character of
\* the match, 0 when there is none
MatchUrlAt(text, i) ==
  LET body(p) == IF OccursAt(text, <<":", "/", "/">>, p)
                    /\ RunEnd(text, p + 3, UrlChar) >= p + 3
                 THEN RunEnd(text, p + 3, UrlChar) ELSE 0
  IN IF ~OccursAt(text, <<"h", "t", "t", "p">>, i) THEN 0
     ELSE IF OccursAt(text, <<"s">>, i + 4) /\ body(i + 5) # 0 THEN body(i + 5)
     ELSE body(i + 4)

\* domain_pattern matched at position i: the index of the last character
\* of the match, 0 when there is none.  The repeated group ends at a dot j
\* such that text[i..j] is a run of non-empty labels each followed by a
\* dot; the greedy match takes the last such dot that two letters follow.
MatchDomainAt(text, i) ==
  LET GroupEnds == {j \in i..Len(text) :
                      /\ text[j] = "."
                      /\ \A k \in i..j : text[k] \in LabelChar \cup {"."}
                      /\ \A k \in i..j : text[k] = "." =>
                                           (k > i /\ text[k - 1] # ".")
                      /\ j + 2 <= Len(text)
                      /\ text[j + 1] \in Alpha
                      /\ text[j + 2] \in Alpha}
      j == CHOOSE x \in GroupEnds : \A y \in GroupEnds : y <= x
      tld_end == RunEnd(text, j + 1, Alpha)
  IN IF GroupEnds = {} THEN 0
     ELSE IF tld_end < Len(text) /\ text[tld_end + 1] = "/"
     THEN RunEndNot(text, tld_end + 1, Whitespace)
     ELSE tld_end

\* re.findall(pattern, text) from position i: the non-overlapping matches,
\* leftmost first; MatchAt(text, i) is the end of the match at i or 0
RECURSIVE findall_url(_, _)
findall_url(text, i) ==
  IF i > Len(text) THEN <<>>
  ELSE IF MatchUrlAt(text, i) # 0
  THEN <<SubSeq(text, i, MatchUrlAt(text, i))>> \o findall_url(text, MatchUrlAt(text, i) + 1)
  ELSE findall_url(text, i + 1)

RECURSIVE findall_domain(_, _)
findall_domain(text, i) ==
  IF i > Len(text) THEN <<>>
  ELSE IF MatchDomainAt(text, i) # 0
  THEN <<SubSeq(text, i, MatchDomainAt(text, i))>> \o findall_domain(text, MatchDomainAt(text, i) + 1)
  ELSE findall_domain(text, i + 1)

\* the loop of extract_urls over potential_urls (lines 38-40)
RECURSIVE add_potential(_, _)
add_potential(urls, potential_urls) ==
  IF Len(potential_urls) = 0 THEN urls
  ELSE LET url == potential_urls[1]
       IN add_potential(
            IF /\ url \notin Range(urls)
               /\ \A k \in 1..Len(urls) : ~Contains(urls[k], url)
            THEN Append(urls, IF StartsWith(url, <<"h", "t", "t", "p">>)
                              THEN url ELSE HTTP_PREFIX \o url)
            ELSE urls,
            Tail(potential_urls))

\* extract_urls
extract_urls(text) == add_potential(findall_url(text, 1), findall_domain(text, 1))

(***************************************************************************)
(* SMSAnalyzer (sms_analyzer.py)                                           *)
(***************************************************************************)
\* sum(1 for keyword in keywords if keyword in text)
keyword_count(keywords, text) ==
  Cardinality({k \in 1..Len(keywords) : Contains(text, keywords[k])})

\* any(word in text for word in words)
any_word(words, text) == \E k \in 1..Len(words) : Contains(text, words[k])

\* len(text.split()): the number of maximal runs of non-whitespace
word_count(text) ==
  Cardinality({i \in 1..Len(text) :
                 /\ text[i] \notin Whitespace
                 /\ (i = 1 \/ text[i - 1] \in Whitespace)})

\* SMSAnalyzer._extract_features.  uppercase_ratio is the exact quotient;
\* the word lists are those of lines 171-175.
SMS_extract_features(message_text, sender) ==
  LET urgency_words ==
        << <<"u","r","g","e","n","t">>,
           <<"i","m","m","e","d","i","a","t","e","l","y">>,
           <<"n","o","w">>,
           <<"h","u","r","r","y">> >>
      action_words ==
        << <<"c","l","i","c","k">>,
           <<"c","a","l","l">>,
           <<"r","e","p","l","y">>,
           <<"c","o","n","f","i","r","m">>,
           <<"v","e","r","i","f","y">> >>
      money_words ==
        << <<"$">>,
           <<"m","o","n","e","y">>,
           <<"c","a","s","h">>,
           <<"p","r","i","z","e">>,
           <<"r","e","f","u","n","d">>,
           <<"p","a","y","m","e","n","t">> >>
      account_words ==
        << <<"a","c","c","o","u","n","t">>,
           <<"b","a","n","k">>,
           <<"c","a","r","d">>,
           <<"p","a","s","s","w","o","r","d">> >>
      threat_words ==
        << <<"s","u","s","p","e","n","d">>,
           <<"l","o","c","k","e","d">>,
           <<"b","l","o","c","k","e","d">>,
           <<"a","r","r","e","s","t">>,
           <<"l","e","g","a","l">> >>
      text_lower == str_lower(message_text)
      bare_sender == str_remove(str_remove(sender, {"+"}), {"-"})
  IN [length                   |-> Len(message_text),
      word_count               |-> word_count(message_text),
      exclamation_count        |-> str_count(message_text, "!"),
      question_count           |-> str_count(message_text, "?"),
      uppercase_ratio          |-> IF Len(message_text) > 0
                                   THEN Q(Cardinality({i \in 1..Len(message_text) :
                                                         message_text[i] \in Upper}),
                                          Len(message_text))
                                   ELSE Q(0, 1),
      digit_count              |-> Cardinality({i \in 1..Len(message_text) :
                                                  message_text[i] \in Digit}),
      sender_is_numeric        |-> str_isdigit(bare_sender),
      sender_is_shortcode      |-> Len(bare_sender) <= 6,
      scam_keyword_count       |-> keyword_count(SCAM_KEYWORDS, text_lower),
      legitimate_keyword_count |-> keyword_count(LEGITIMATE_KEYWORDS, text_lower),
      has_urgency              |-> any_word(urgency_words, text_lower),
      requests_action          |-> any_word(action_words, text_lower),
      mentions_money           |-> any_word(money_words, text_lower),
      mentions_account         |-> any_word(account_words, text_lower),
      has_threat               |-> any_word(threat_words, text_lower)]

(***************************************************************************)
(* Inputs                                                                  *)
(***************************************************************************)
Urls ==
  {
    U_google,
    U_ip,
    U_tk,
    \* "https://bit.ly/abc123"
    <<"h","t","t","p","s",":","/","/","b","i","t",".","l","y","/","a","b","c","1","2","3">>,
    \* "http://amaz0n-security-alert.com/verify-account?id=12345"
    <<"h","t","t","p",":","/","/","a","m","a","z","0","n","-","s","e","c","u","r","i","t","y","-","a","l","e","r","t",".","c","o","m","/","v","e","r","i","f","y","-","a","c","c","o","u","n","t","?","i","d","=","1","2","3","4","5">>,
    \* "https://amazon.com"
    <<"h","t","t","p","s",":","/","/","a","m","a","z","o","n",".","c","o","m">>,
    \* "https://github.com/login"
    <<"h","t","t","p","s",":","/","/","g","i","t","h","u","b",".","c","o","m","/","l","o","g","i","n">>,
    \* "google.com"
    <<"g","o","o","g","l","e",".","c","o","m">>,
    U_port_range,
    \* "http://example.com:8a"
    <<"h","t","t","p",":","/","/","e","x","a","m","p","l","e",".","c","o","m",":","8","a">>,
    U_bracket,
    \* "http://[::1]:8080/x"
    <<"h","t","t","p",":","/","/","[",":",":","1","]",":","8","0","8","0","/","x">>,
    \* "http://google.com@evil.tk/"
    <<"h","t","t","p",":","/","/","g","o","o","g","l","e",".","c","o","m","@","e","v","i","l",".","t","k","/">>,
    \* "http://a.b.c.example.com:8080/?a=1&b=2&c=3&d=4&e=5&f=6"
    <<"h","t","t","p",":","/","/","a",".","b",".","c",".","e","x","a","m","p","l","e",".","c","o","m",":","8","0","8","0","/","?","a","=","1","&","b","=","2","&","c","=","3","&","d","=","4","&","e","=","5","&","f","=","6">>,
    \* "http://b.tk/x"
    <<"h","t","t","p",":","/","/","b",".","t","k","/","x">>,
    \* "https://fedex.com/track/abc"
    <<"h","t","t","p","s",":","/","/","f","e","d","e","x",".","c","o","m","/","t","r","a","c","k","/","a","b","c">>,
    \* "http://a-b-c-login.tk/verify@x"
    <<"h","t","t","p",":","/","/","a","-","b","-","c","-","l","o","g","i","n",".","t","k","/","v","e","r","i","f","y","@","x">>
  }

\* the urls of the lists analyze_multiple_urls is given, and the longest
\* such list
BatchUrls == {U_tk, U_google, U_port_range, U_bracket, U_ip}
MaxBatch == 3

\* the longest list of analyses of a report
MaxAnalyses == 3

RECURSIVE SeqsUpTo(_, _)
SeqsUpTo(S, n) ==
  IF n = 0 THEN {<<>>}
  ELSE SeqsUpTo(S, n - 1) \cup
       {Append(s, x) : s \in {t \in SeqsUpTo(S, n - 1) : Len(t) = n - 1}, x \in S}

Batches == SeqsUpTo(BatchUrls, MaxBatch)

Phones ==
  {
    \* "+234-555-1234"
    <<"+","2","3","4","-","5","5","5","-","1","2","3","4">>,
    \* "555-123-4567"
    <<"5","5","5","-","1","2","3","-","4","5","6","7">>,
    \* "888-888-8888"
    <<"8","8","8","-","8","8","8","-","8","8","8","8">>,
    \* "0044 20 7946 0958"
    <<"0","0","4","4"," ","2","0"," ","7","9","4","6"," ","0","9","5","8">>,
    \* "(212) 555-0100"
    <<"(","2","1","2",")"," ","5","5","5","-","0","1","0","0">>,
    \* "+62 812 905 7431"
    <<"+","6","2"," ","8","1","2"," ","9","0","5"," ","7","4","3","1">>
  }
Durations == {0, 8, 9, 10, 29, 30, 299, 300}
Frequencies == {1, 2, 3, 5, 6}
TimesOfDay == {"early_morning", "business_hours", "evening", "night"}

Messages ==
  {
    \* "congratulations winner, you were selected. click http://b.tk/x"
    <<"c","o","n","g","r","a","t","u","l","a","t","i","o","n","s"," ","w","i","n","n","e","r",","," ","y","o","u"," ","w","e","r","e"," ","s","e","l","e","c","t","e","d","."," ","c","l","i","c","k"," ","h","t","t","p",":","/","/","b",".","t","k","/","x">>,
    \* "Your bank account has been locked! Click here immediately to verify: http://bit.ly/bank123"
    <<"Y","o","u","r"," ","b","a","n","k"," ","a","c","c","o","u","n","t"," ","h","a","s"," ","b","e","e","n"," ","l","o","c","k","e","d","!"," ","C","l","i","c","k"," ","h","e","r","e"," ","i","m","m","e","d","i","a","t","e","l","y"," ","t","o"," ","v","e","r","i","f","y",":"," ","h","t","t","p",":","/","/","b","i","t",".","l","y","/","b","a","n","k","1","2","3">>,
    \* "Hi, your package will be delivered tomorrow. Track: https://fedex.com/track/abc"
    <<"H","i",","," ","y","o","u","r"," ","p","a","c","k","a","g","e"," ","w","i","l","l"," ","b","e"," ","d","e","l","i","v","e","r","e","d"," ","t","o","m","o","r","r","o","w","."," ","T","r","a","c","k",":"," ","h","t","t","p","s",":","/","/","f","e","d","e","x",".","c","o","m","/","t","r","a","c","k","/","a","b","c">>,
    \* "URGENT: You have won $10,000! Claim now at winner-prize.tk/claim?id=999"
    <<"U","R","G","E","N","T",":"," ","Y","o","u"," ","h","a","v","e"," ","w","o","n"," ","$","1","0",",","0","0","0","!"," ","C","l","a","i","m"," ","n","o","w"," ","a","t"," ","w","i","n","n","e","r","-","p","r","i","z","e",".","t","k","/","c","l","a","i","m","?","i","d","=","9","9","9">>,
    \* "see http://example.com:99999/ and b.tk/x"
    <<"s","e","e"," ","h","t","t","p",":","/","/","e","x","a","m","p","l","e",".","c","o","m",":","9","9","9","9","9","/"," ","a","n","d"," ","b",".","t","k","/","x">>,
    \* "go http://[bad or https://google.com"
    <<"g","o"," ","h","t","t","p",":","/","/","[","b","a","d"," ","o","r"," ","h","t","t","p","s",":","/","/","g","o","o","g","l","e",".","c","o","m">>,
    \* "hello, lunch at noon?"
    <<"h","e","l","l","o",","," ","l","u","n","c","h"," ","a","t"," ","n","o","o","n","?">>,
    \* "SALE!!! 50% off. Reply STOP to unsubscribe"
    <<"S","A","L","E","!","!","!"," ","5","0","%"," ","o","f","f","."," ","R","e","p","l","y"," ","S","T","O","P"," ","t","o"," ","u","n","s","u","b","s","c","r","i","b","e">>,
    \* "pay at http://b.tk/x or http://192.168.1.1/login"
    <<"p","a","y"," ","a","t"," ","h","t","t","p",":","/","/","b",".","t","k","/","x"," ","o","r"," ","h","t","t","p",":","/","/","1","9","2",".","1","6","8",".","1",".","1","/","l","o","g","i","n">>,
    \* "links: b.tk/x https://google.com https://bit.ly/abc123"
    <<"l","i","n","k","s",":"," ","b",".","t","k","/","x"," ","h","t","t","p","s",":","/","/","g","o","o","g","l","e",".","c","o","m"," ","h","t","t","p","s",":","/","/","b","i","t",".","l","y","/","a","b","c","1","2","3">>,
    \* "FINAL NOTICE: account suspended, arrest warrant issued. Verify now!!!"
    <<"F","I","N","A","L"," ","N","O","T","I","C","E",":"," ","a","c","c","o","u","n","t"," ","s","u","s","p","e","n","d","e","d",","," ","a","r","r","e","s","t"," ","w","a","r","r","a","n","t"," ","i","s","s","u","e","d","."," ","V","e","r","i","f","y"," ","n","o","w","!","!","!">>
  }
Senders ==
  {
    \* "12345"
    <<"1","2","3","4","5">>,
    \* "FedEx"
    <<"F","e","d","E","x">>,
    \* "+1-555-123-4567"
    <<"+","1","-","5","5","5","-","1","2","3","-","4","5","6","7">>
  }

\* what a prediction of a loaded backend may do
Backends ==
  {BackendReturns(p) : p \in {Q(0, 1), Q(1, 10), Q(24996, 100000), Q(1, 4),
                              Q(49996, 100000), Q(1, 2), Q(74996, 100000),
                              Q(3, 4), Q(1, 1), Q(3, 2), Q(-1, 10)}}
  \cup {BackendRaises}

\* the threads that serve requests
Threads == {"t1", "t2"}

\* the urls of the concurrent requests
ConcUrls == {U_tk, U_ip, U_google, U_port_range}

(***************************************************************************)
(* The values of the text functions on the texts of the model, computed    *)
(* once                                                                    *)
(***************************************************************************)
\* every url the model hands to analyze_url
AllUrls == Urls \cup UNION {Range(extract_urls(m)) : m \in Messages}

\* analyze_url on each url
UrlTable == [u \in AllUrls |-> analyze_url(u)]

\* each check of analyze_url on each url of the concurrent requests: whether
\* it raises, whether its condition holds, and then the change of risk_score
\* and the factor string
StepTable ==
  LET step(c, url, parsed, extracted, hit) ==
        [raises    |-> CheckRaises(c, parsed),
         triggered |-> hit,
         delta     |-> IF hit THEN CheckDelta(c, url) ELSE 0,
         factor    |-> IF hit THEN CheckFactor(c, url, parsed, extracted)
                       ELSE [msg |-> "", arg |-> <<>>]]
      check(c, url, parsed, extracted) ==
        step(c, url, parsed, extracted,
             /\ ~parsed.raised
             /\ ~CheckRaises(c, parsed)
             /\ CheckTriggered(c, url, parsed, extracted))
      checks(url) ==
        [i \in 1..Len(CheckOrder) |->
           check(CheckOrder[i], url, urlparse(url), tldextract_extract(url))]
  IN [u \in ConcUrls |-> checks(with_scheme(u))]

\* extract_urls and _extract_features on each message
ExtractTable == [m \in Messages |-> extract_urls(m)]
FeatureTable == [m \in Messages |-> [s \in Senders |-> SMS_extract_features(m, s)]]

RECURSIVE SumSeq(_)
SumSeq(xs) == IF Len(xs) = 0 THEN 0 ELSE xs[1] + SumSeq(Tail(xs))

\* The url features analyze_message adds (lines 95-110); avg_url_risk is
\* np.mean of the url risk scores, the exact quotient
with_url_features(features, url_risk_scores) ==
  LET n == Len(url_risk_scores)
      url_features == IF n > 0
                      THEN [has_urls |-> 1, url_count |-> n,
                            avg_url_risk |-> Q(SumSeq(url_risk_scores), n)]
                      ELSE [has_urls |-> 0, url_count |-> 0, avg_url_risk |-> Q(0, 1)]
  IN [k \in DOMAIN features \cup DOMAIN url_features |->
        IF k \in DOMAIN url_features THEN url_features[k] ELSE features[k]]

\* q > 3/10
QGtThreeTenths(q) == 10 * q.num > 3 * q.den

\* _calculate_rule_based_score whose short-code term ignores the legitimacy
\* keywords
SMS_calculate_rule_based_score_shortcode(features) ==
  LET fixed ==
          Min(features.scam_keyword_count * 10, 30)
        + (IF features.has_urgency THEN 15 ELSE 0)
        + (IF features.requests_action THEN 10 ELSE 0)
        + (IF features.mentions_money THEN 15 ELSE 0)
        + (IF features.mentions_account THEN 12 ELSE 0)
        + (IF features.has_threat THEN 20 ELSE 0)
        + (IF features.exclamation_count > 2 THEN 10 ELSE 0)
        + (IF QGtThreeTenths(features.uppercase_ratio) THEN 10 ELSE 0)
        + (IF features.sender_is_shortcode THEN 10 ELSE 0)
        - (IF features.legitimate_keyword_count > 0 THEN 20 ELSE 0)
      avg == features.avg_url_risk
      score == IF features.has_urls # 0
               THEN Q(2 * avg.num + 5 * avg.den * fixed, 5 * avg.den)
               ELSE Q(fixed, 1)
  IN QClamp(score)

\* SMSAnalyzer._calculate_rule_based_score.  avg_url_risk * 0.4 is
\* 2 * avg / 5, so the score is the rational below.
SMS_calculate_rule_based_score(features) ==
  LET fixed ==
          Min(features.scam_keyword_count * 10, 30)
        + (IF features.has_urgency THEN 15 ELSE 0)
        + (IF features.requests_action THEN 10 ELSE 0)
        + (IF features.mentions_money THEN 15 ELSE 0)
        + (IF features.mentions_account THEN 12 ELSE 0)
        + (IF features.has_threat THEN 20 ELSE 0)
        + (IF features.exclamation_count > 2 THEN 10 ELSE 0)
        + (IF QGtThreeTenths(features.uppercase_ratio) THEN 10 ELSE 0)
        + (IF features.sender_is_shortcode /\ features.legitimate_keyword_count = 0
           THEN 10 ELSE 0)
        - (IF features.legitimate_keyword_count > 0 THEN 20 ELSE 0)
      avg == features.avg_url_risk
      score == IF features.has_urls # 0
               THEN Q(2 * avg.num + 5 * avg.den * fixed, 5 * avg.den)
               ELSE Q(fixed, 1)
  IN QClamp(score)

\* SMSAnalyzer._predict_with_model: the probability returned
SMS_predict_with_model(features, backend) ==
  IF backend.kind = "prob" THEN backend.p
  ELSE QDiv100(SMS_calculate_rule_based_score(features))

\* SMSAnalyzer._get_risk_level
SMS_get_risk_level(risk_score) ==
  IF QGe(risk_score, 75) THEN "CRITICAL"
  ELSE IF QGe(risk_score, 50) THEN "HIGH"
  ELSE IF QGe(risk_score, 25) THEN "MEDIUM"
  ELSE "LOW"

\* SMSAnalyzer._generate_explanation; url_analysis holds the url results
SMS_generate_explanation(features, url_analysis) ==
  LET suspicious_urls == {k \in 1..Len(url_analysis) : url_analysis[k].is_suspicious}
      explanations ==
           (IF features.scam_keyword_count > 3
            THEN <<[msg |-> "Contains common scam keywords",
                    arg |-> int_str(features.scam_keyword_count)]>> ELSE <<>>)
        \o (IF features.has_urgency
            THEN <<[msg |-> "Uses urgent language to pressure immediate action", arg |-> <<>>]>>
            ELSE <<>>)
        \o (IF features.has_threat
            THEN <<[msg |-> "Contains threatening language", arg |-> <<>>]>> ELSE <<>>)
        \o (IF features.mentions_money \/ features.mentions_account
            THEN <<[msg |-> "Mentions financial or account information", arg |-> <<>>]>>
            ELSE <<>>)
        \o (IF features.has_urls # 0 /\ suspicious_urls # {}
            THEN <<[msg |-> "Contains suspicious URL(s)",
                    arg |-> int_str(Cardinality(suspicious_urls))]>> ELSE <<>>)
        \o (IF QGtThreeTenths(features.uppercase_ratio)
            THEN <<[msg |-> "Excessive use of capital letters", arg |-> <<>>]>> ELSE <<>>)
        \o (IF features.exclamation_count > 2
            THEN <<[msg |-> "Excessive use of exclamation marks", arg |-> <<>>]>> ELSE <<>>)
        \o (IF features.sender_is_shortcode
            THEN <<[msg |-> "Sent from a short code (common in scams)", arg |-> <<>>]>>
            ELSE <<>>)
  IN IF Len(explanations) = 0
     THEN <<[msg |-> "No significant risk indicators detected", arg |-> <<>>]>>
     ELSE explanations

\* SMSAnalyzer._get_recommendations
SMS_get_recommendations(risk_level, features) ==
     (IF risk_level \in {"CRITICAL", "HIGH"}
      THEN <<"Do NOT click any links in this message",
             "Do NOT reply or provide any personal information",
             "Delete this message immediately",
             "Block the sender">>
           \o (IF features.mentions_account
               THEN <<"Contact your bank/service provider directly using official contact info">>
               ELSE <<>>)
      ELSE IF risk_level = "MEDIUM"
      THEN <<"Exercise caution with this message",
             "Verify the sender through official channels",
             "Do not click links unless you can verify the source">>
      ELSE <<"Message appears relatively safe",
             "Still verify sender if requesting sensitive information">>)
  \o <<"Never share passwords, PINs, or security codes via SMS">>

\* The unrounded risk_score of analyze_message (lines 112-119)
SMS_risk_score(features, model, backend) ==
  IF model = "loaded"
  THEN QTimes100(SMS_predict_with_model(features, backend))
  ELSE SMS_calculate_rule_based_score(features)

\* SMSAnalyzer.analyze_message once every url has been analyzed: the
\* verdicts it can return (one for each rounding of the score).
\* url_analysis holds the results analyze_url returned, in order.
analyze_message(message_text, sender, url_analysis, model, backend) ==
  LET urls == ExtractTable[message_text]
      features == with_url_features(
                    FeatureTable[message_text][sender],
                    [k \in 1..Len(url_analysis) |-> url_analysis[k].risk_score])
      risk_score == SMS_risk_score(features, model, backend)
      is_scam == QGe(risk_score, 50)
      risk_level == SMS_get_risk_level(risk_score)
  IN {[sender          |-> sender,
       message_text    |-> message_text,
       risk_score      |-> rounded,
       risk_level      |-> risk_level,
       is_scam         |-> is_scam,
       features        |-> features,
       urls            |-> urls,
       url_analysis    |-> url_analysis,
       explanation     |-> SMS_generate_explanation(features, url_analysis),
       recommendations |-> SMS_get_recommendations(risk_level, features),
       has_url         |-> Len(urls) > 0]
      : rounded \in Round2(risk_score)}

(***************************************************************************)
(* RiskEngine (risk_engine.py).  A result handed to assess_overall_risk is *)
(* a verdict dictionary or None; risk scores are in hundredths.            *)
(***************************************************************************)
None == [kind |-> "None"]

\* utils.get_risk_level
get_risk_level(risk_score) ==
  IF QGe(risk_score, 75) THEN "CRITICAL"
  ELSE IF QGe(risk_score, 50) THEN "HIGH"
  ELSE IF QGe(risk_score, 25) THEN "MEDIUM"
  ELSE "LOW"

\* a copy of the list that keeps the repeated elements
RECURSIVE dict_fromkeys_all(_, _)
dict_fromkeys_all(xs, seen) ==
  IF Len(xs) = 0 THEN seen ELSE dict_fromkeys_all(Tail(xs), Append(seen, xs[1]))

\* list(dict.fromkeys(xs)): each element at its first occurrence
RECURSIVE dict_fromkeys(_, _)
dict_fromkeys(xs, seen) ==
  IF Len(xs) = 0 THEN seen
  ELSE dict_fromkeys(Tail(xs),
                     IF \E k \in 1..Len(seen) : seen[k] = xs[1] THEN seen
                     ELSE Append(seen, xs[1]))

\* the blend with the weight 0.55 on the first score and 0.45 on the second
overall_score_swapped(risk_scores) ==
  IF Len(risk_scores) = 2
  THEN Q(55 * risk_scores[1] + 45 * risk_scores[2], 10000)
  ELSE Q(SumSeq(risk_scores), 100 * Len(risk_scores))

\* the blend with the weight 0.55 on both scores
overall_score_overweight(risk_scores) ==
  IF Len(risk_scores) = 2
  THEN Q(55 * risk_scores[1] + 55 * risk_scores[2], 10000)
  ELSE Q(SumSeq(risk_scores), 100 * Len(risk_scores))

\* the blend that weighs a single score too: 0.45 of a call score, 0.55 of
\* a message score
overall_score_weighted(risk_scores) ==
  IF Len(risk_scores) = 2
  THEN Q(45 * risk_scores[1] + 55 * risk_scores[2], 10000)
  ELSE Q(55 * risk_scores[1], 10000)

\* the overall score of lines 63-67: score * 0.45 + score * 0.55 with two
\* scores, sum / len with one, as an exact rational
overall_score(risk_scores) ==
  IF Len(risk_scores) = 2
  THEN Q(45 * risk_scores[1] + 55 * risk_scores[2], 10000)
  ELSE Q(SumSeq(risk_scores), 100 * Len(risk_scores))

\* RiskEngine.assess_overall_risk: the assessments it can return (one for
\* each rounding of the score).  risk_level is that of the unrounded score.
assess_overall_risk(call_result, sms_result) ==
  LET of_call(x) == IF call_result # None THEN x ELSE <<>>
      of_sms(x) == IF sms_result # None THEN x ELSE <<>>
      \* [f"Call: {exp}" for exp in explanation]
      prefixed(prefix, explanation) ==
        [k \in 1..Len(explanation) |->
           [prefix |-> prefix, msg |-> explanation[k].msg, arg |-> explanation[k].arg]]
      \* utils.get_risk_color
      get_risk_color(risk_level) ==
        CASE risk_level = "CRITICAL" -> "#dc3545"
          [] risk_level = "HIGH"     -> "#fd7e14"
          [] risk_level = "MEDIUM"   -> "#ffc107"
          [] risk_level = "LOW"      -> "#28a745"
          [] OTHER                   -> "#6c757d"
      top8(unique_recommendations) ==
        SubSeq(unique_recommendations, 1, Min(8, Len(unique_recommendations)))
      risk_scores == of_call(<<call_result.risk_score>>) \o of_sms(<<sms_result.risk_score>>)
      all_recommendations == of_call(call_result.recommendations)
                             \o of_sms(sms_result.recommendations)
      assessment(score, risk_level) ==
        {[overall_risk_score |-> rounded,
          risk_level         |-> risk_level,
          risk_color         |-> get_risk_color(risk_level),
          risk_sources       |-> of_call(<<"call">>) \o of_sms(<<"sms">>),
          explanation        |-> of_call(prefixed("Call: ", call_result.explanation))
                                 \o of_sms(prefixed("SMS: ", sms_result.explanation)),
          recommendations    |-> top8(dict_fromkeys(all_recommendations, <<>>)),
          call_analysis      |-> call_result,
          sms_analysis       |-> sms_result]
         : rounded \in Round2(score)}
      assessed(score) == assessment(score, get_risk_level(score))
  IN IF Len(risk_scores) = 0
     THEN {[overall_risk_score |-> 0,
            risk_level         |-> "LOW",
            risk_sources       |-> <<>>,
            explanation        |-> <<>>,
            recommendations    |-> <<>>]}
     ELSE assessed(overall_score(risk_scores))

\* utils.get_safety_tips
get_safety_tips(category) ==
  LET SCAM_TIPS ==
        [general |->
           <<"Never share personal information over the phone unless you initiated the call",
             "Be suspicious of urgent requests for money or information",
             "Verify caller identity through official channels",
             "Don't click on links from unknown sources",
             "Enable two-factor authentication on all accounts">>,
         call |->
           <<"Legitimate organizations won't ask for passwords over the phone",
             "Government agencies don't demand immediate payment by gift cards or wire transfer",
             "If a caller claims to be from a company, hang up and call the official number",
             "Be wary of robocalls claiming you've won a prize">>,
         sms |->
           <<"Don't click on shortened URLs from unknown numbers",
             "Banks will never ask you to verify account details via SMS link",
             "Check the sender's number - legitimate companies use consistent numbers",
             "Look for spelling errors and grammatical mistakes in messages">>]
  IN IF category \in DOMAIN SCAM_TIPS THEN SCAM_TIPS[category] ELSE SCAM_TIPS["general"]

\* generate_awareness_alert that looks for 'call' among the sources first
generate_awareness_alert_call_first(risk_assessment) ==
  LET risk_level == risk_assessment.risk_level
      alert_messages(level) ==
        CASE level = "CRITICAL" ->
               [title   |-> "CRITICAL THREAT DETECTED",
                message |-> "This communication shows strong indicators of a scam. DO NOT ENGAGE.",
                action  |-> "BLOCK AND REPORT"]
          [] level = "HIGH" ->
               [title   |-> "HIGH RISK WARNING",
                message |-> "Multiple scam indicators detected. Exercise extreme caution.",
                action  |-> "DO NOT RESPOND"]
          [] level = "LOW" ->
               [title   |-> "LOW RISK",
                message |-> "No significant threats detected, but remain vigilant.",
                action  |-> "PROCEED WITH CAUTION"]
          [] OTHER ->
               [title   |-> "MEDIUM RISK ALERT",
                message |-> "Some suspicious patterns detected. Verify before taking action.",
                action  |-> "VERIFY SOURCE"]
      alert == alert_messages(risk_level)
      sources == Range(risk_assessment.risk_sources)
      \* data.get(key) and data.get('features', {}).get(key), as truth
      \* values: falsy is the 0 or the False the key can hold
      get(data, key, falsy) ==
        key \in DOMAIN data /\ data[key] # falsy
      feature(data, key, falsy) ==
        "features" \in DOMAIN data /\ get(data.features, key, falsy)
      found(present, sentence) == IF present THEN <<sentence>> ELSE <<>>
      what_we_found ==
        (IF "call" \in sources
         THEN found(get(risk_assessment.call_analysis, "is_international", 0),
                    "International call from unknown number")
              \o found(feature(risk_assessment.call_analysis, "very_short_call", 0),
                       "Suspiciously short call duration")
              \o found(feature(risk_assessment.call_analysis, "excessive_calls", 0),
                       "Multiple calls from same number")
         ELSE <<>>)
        \o
        (IF "sms" \in sources
         THEN found(get(risk_assessment.sms_analysis, "has_url", FALSE), "Message contains URLs")
              \o found(feature(risk_assessment.sms_analysis, "has_urgency", FALSE),
                       "Urgent language designed to pressure action")
              \o found(feature(risk_assessment.sms_analysis, "has_threat", FALSE),
                       "Threatening language to create fear")
         ELSE <<>>)
      safety_tips == IF "call" \in sources THEN get_safety_tips("call")
                     ELSE IF "sms" \in sources THEN get_safety_tips("sms")
                     ELSE get_safety_tips("general")
  IN [alert_level         |-> risk_level,
      title               |-> alert.title,
      message             |-> alert.message,
      recommended_action  |-> alert.action,
      risk_score          |-> risk_assessment.overall_risk_score,
      explanation         |-> risk_assessment.explanation,
      recommendations     |-> risk_assessment.recommendations,
      educational_content |-> [what_we_found |-> what_we_found],
      safety_tips         |-> SubSeq(safety_tips, 1, Min(5, Len(safety_tips)))]

\* RiskEngine.generate_awareness_alert.  The icons, the visual indicators
\* and the fixed lists of the educational content are left out.
generate_awareness_alert(risk_assessment) ==
  LET risk_level == risk_assessment.risk_level
      alert_messages(level) ==
        CASE level = "CRITICAL" ->
               [title   |-> "CRITICAL THREAT DETECTED",
                message |-> "This communication shows strong indicators of a scam. DO NOT ENGAGE.",
                action  |-> "BLOCK AND REPORT"]
          [] level = "HIGH" ->
               [title   |-> "HIGH RISK WARNING",
                message |-> "Multiple scam indicators detected. Exercise extreme caution.",
                action  |-> "DO NOT RESPOND"]
          [] level = "LOW" ->
               [title   |-> "LOW RISK",
                message |-> "No significant threats detected, but remain vigilant.",
                action  |-> "PROCEED WITH CAUTION"]
          [] OTHER ->
               [title   |-> "MEDIUM RISK ALERT",
                message |-> "Some suspicious patterns detected. Verify before taking action.",
                action  |-> "VERIFY SOURCE"]
      alert == alert_messages(risk_level)
      sources == Range(risk_assessment.risk_sources)
      \* data.get(key) and data.get('features', {}).get(key), as truth
      \* values: falsy is the 0 or the False the key can hold
      get(data, key, falsy) ==
        key \in DOMAIN data /\ data[key] # falsy
      feature(data, key, falsy) ==
        "features" \in DOMAIN data /\ get(data.features, key, falsy)
      found(present, sentence) == IF present THEN <<sentence>> ELSE <<>>
      what_we_found ==
        (IF "call" \in sources
         THEN found(get(risk_assessment.call_analysis, "is_international", 0),
                    "International call from unknown number")
              \o found(feature(risk_assessment.call_analysis, "very_short_call", 0),
                       "Suspiciously short call duration")
              \o found(feature(risk_assessment.call_analysis, "excessive_calls", 0),
                       "Multiple calls from same number")
         ELSE <<>>)
        \o
        (IF "sms" \in sources
         THEN found(get(risk_assessment.sms_analysis, "has_url", FALSE), "Message contains URLs")
              \o found(feature(risk_assessment.sms_analysis, "has_urgency", FALSE),
                       "Urgent language designed to pressure action")
              \o found(feature(risk_assessment.sms_analysis, "has_threat", FALSE),
                       "Threatening language to create fear")
         ELSE <<>>)
      safety_tips == IF "sms" \in sources THEN get_safety_tips("sms")
                     ELSE IF "call" \in sources THEN get_safety_tips("call")
                     ELSE get_safety_tips("general")
  IN [alert_level         |-> risk_level,
      title               |-> alert.title,
      message             |-> alert.message,
      recommended_action  |-> alert.action,
      risk_score          |-> risk_assessment.overall_risk_score,
      explanation         |-> risk_assessment.explanation,
      recommendations     |-> risk_assessment.recommendations,
      educational_content |-> [what_we_found |-> what_we_found],
      safety_tips         |-> SubSeq(safety_tips, 1, Min(5, Len(safety_tips)))]

\* generate_risk_report whose most common level is the last of the
\* levels with the largest count
generate_risk_report_last(analyses) ==
  LET total == Len(analyses)
      scam_count == Cardinality({k \in 1..total : analyses[k].is_scam})
      levels == <<"LOW", "MEDIUM", "HIGH", "CRITICAL">>
      risk_distribution ==
        [level \in Range(levels) |->
           Cardinality({k \in 1..total : analyses[k].risk_level = level})]
      total_risk_score == SumSeq([k \in 1..total |-> analyses[k].risk_score])
      most_common_risk ==
        levels[CHOOSE i \in 1..4 :
                 /\ \A j \in 1..4 : risk_distribution[levels[j]] <= risk_distribution[levels[i]]
                 /\ \A j \in (i + 1)..4 :
                      risk_distribution[levels[j]] < risk_distribution[levels[i]]]
  IN IF total = 0
     THEN {[total_analyses |-> 0, scam_count |-> 0, safe_count |-> 0,
            risk_distribution |-> <<>>, average_risk_score |-> 0]}
     ELSE {[total_analyses     |-> total,
            scam_count         |-> scam_count,
            safe_count         |-> total - scam_count,
            scam_percentage    |-> Q(scam_count * 100, total),
            risk_distribution  |-> risk_distribution,
            average_risk_score |-> rounded,
            most_common_risk   |-> most_common_risk]
           : rounded \in Round2(Q(total_risk_score, 100 * total))}

\* RiskEngine.generate_risk_report: the reports it can return (one for each
\* rounding of the mean).  analyses is a list of records with is_scam,
\* risk_level and risk_score in hundredths.
generate_risk_report(analyses) ==
  LET total == Len(analyses)
      scam_count == Cardinality({k \in 1..total : analyses[k].is_scam})
      levels == <<"LOW", "MEDIUM", "HIGH", "CRITICAL">>
      risk_distribution ==
        [level \in Range(levels) |->
           Cardinality({k \in 1..total : analyses[k].risk_level = level})]
      total_risk_score == SumSeq([k \in 1..total |-> analyses[k].risk_score])
      \* max(risk_distribution, key=risk_distribution.get): the first key, in
      \* insertion order, that no key exceeds
      most_common_risk ==
        levels[CHOOSE i \in 1..4 :
                 /\ \A j \in 1..4 : risk_distribution[levels[j]] <= risk_distribution[levels[i]]
                 /\ \A j \in 1..(i - 1) : risk_distribution[levels[j]] < risk_distribution[levels[i]]]
  IN IF total = 0
     THEN {[total_analyses |-> 0, scam_count |-> 0, safe_count |-> 0,
            risk_distribution |-> <<>>, average_risk_score |-> 0]}
     ELSE {[total_analyses     |-> total,
            scam_count         |-> scam_count,
            safe_count         |-> total - scam_count,
            scam_percentage    |-> Q(scam_count * 100, total),
            risk_distribution  |-> risk_distribution,
            average_risk_score |-> rounded,
            most_common_risk   |-> most_common_risk]
           : rounded \in Round2(Q(total_risk_score, 100 * total))}

\* The results handed to the engine: None, and the verdicts of the
\* rule-based scorers and of scorers whose backend returns one of a few
\* probabilities, on some of the calls and on the messages without url
EngineResults ==
  LET scorers(probs) ==
        {[model |-> "none", backend |-> NoBackend]} \cup
        {[model |-> "loaded", backend |-> BackendReturns(prob)] : prob \in probs}
      call_verdicts ==
        UNION {analyze_call(phone_number, duration, call_frequency, is_unknown, "night",
                            scorer.model, scorer.backend) :
                 phone_number \in {<<"+","2","3","4","-","5","5","5","-","1","2","3","4">>,
                                   <<"5","5","5","-","1","2","3","-","4","5","6","7">>},
                 duration \in {8, 30, 300}, call_frequency \in {1, 6},
                 is_unknown \in BOOLEAN,
                 scorer \in scorers({Q(0, 1), Q(24996, 100000), Q(3, 4)})}
      message_verdicts ==
        UNION {analyze_message(message_text, sender, <<>>, scorer.model, scorer.backend) :
                 message_text \in {m \in Messages : Len(ExtractTable[m]) = 0},
                 sender \in Senders, scorer \in scorers({Q(4545, 10000), Q(17, 20)})}
  IN call_verdicts \cup message_verdicts \cup {None}

(***************************************************************************)
(* The heap of risk_factors lists.  URLChecker.risk_factors is a field     *)
(* that holds a reference to a list; every result dictionary holds a       *)
(* reference to the list the field pointed to when the call returned.      *)
(* heap maps the address of each live list to its content.                 *)
(***************************************************************************)
\* the address of a newly allocated list
Fresh(h) ==
  CHOOSE a \in 1..(Cardinality(DOMAIN h) + 1) :
    a \notin DOMAIN h /\ \A b \in 1..(a - 1) : b \in DOMAIN h

\* the heap with the list at address a set to content
Store(h, a, content) ==
  [x \in DOMAIN h \cup {a} |-> IF x = a THEN content ELSE h[x]]

\* reference counting: only the lists in live stay
Collect(h, live) == [x \in DOMAIN h \cap live |-> h[x]]

\* analyze_url that does not start a new list (line 53) but goes on
\* appending to a list of the heap
run_analyze_url_noreset(h, url) ==
  LET stored(a, row) ==
        [heap   |-> Store(h, a, h[a] \o row.appended),
         field  |-> a,
         raised |-> row.raised,
         error  |-> row.error,
         value  |-> IF row.raised THEN [raised |-> TRUE]
                    ELSE [row.value EXCEPT !.risk_factors = a]]
  IN stored(CHOOSE a \in DOMAIN h : TRUE, UrlTable[url])

\* URLChecker.analyze_url run without interruption on heap h: the heap
\* afterwards, the list the field then points to, and the result with
\* risk_factors the address of that list
run_analyze_url(h, url) ==
  LET stored(a, row) ==
        [heap   |-> Store(h, a, row.appended),
         field  |-> a,
         raised |-> row.raised,
         error  |-> row.error,
         value  |-> IF row.raised THEN [raised |-> TRUE]
                    ELSE [row.value EXCEPT !.risk_factors = a]]
  IN stored(Fresh(h), UrlTable[url])

\* analyze_multiple_urls whose except branch logs the error and appends
\* nothing
RECURSIVE run_analyze_multiple_urls_skip(_, _, _, _)
run_analyze_multiple_urls_skip(h, f, urls, results) ==
  LET rest(r) ==
        run_analyze_multiple_urls_skip(
          r.heap, r.field, Tail(urls),
          IF r.raised THEN results ELSE Append(results, r.value))
  IN IF Len(urls) = 0 THEN [heap |-> h, field |-> f, results |-> results]
     ELSE rest(run_analyze_url(h, urls[1]))

\* URLChecker.analyze_multiple_urls from heap h and field value f: the
\* results so far are in results
RECURSIVE run_analyze_multiple_urls(_, _, _, _)
run_analyze_multiple_urls(h, f, urls, results) ==
  LET rest(r) ==
        run_analyze_multiple_urls(
          r.heap, r.field, Tail(urls),
          Append(results,
                 IF r.raised
                 THEN [url           |-> urls[1],
                       error         |-> r.error,
                       risk_score    |-> 50,
                       is_suspicious |-> TRUE]
                 ELSE r.value))
  IN IF Len(urls) = 0 THEN [heap |-> h, field |-> f, results |-> results]
     ELSE rest(run_analyze_url(h, urls[1]))

\* The loop of analyze_message over the extracted urls (lines 100-103): it
\* stops at the first url on which analyze_url raises
RECURSIVE run_url_loop(_, _, _, _)
run_url_loop(h, f, urls, url_analysis) ==
  LET rest(r) ==
        IF r.raised
        THEN [heap |-> r.heap, field |-> r.field, raised |-> TRUE,
              url_analysis |-> url_analysis]
        ELSE run_url_loop(r.heap, r.field, Tail(urls), Append(url_analysis, r.value))
  IN IF Len(urls) = 0
     THEN [heap |-> h, field |-> f, raised |-> FALSE, url_analysis |-> url_analysis]
     ELSE rest(run_analyze_url(h, urls[1]))

\* the addresses the results of a list refer to
RefsOf(results) ==
  {results[k].risk_factors : k \in {i \in 1..Len(results) :
                                      "risk_factors" \in DOMAIN results[i]}}

(***************************************************************************)
(* Database (database.py) and the request handlers (app.py).  tables holds *)
(* the rows of the three tables; a JSON value of a request is an integer  *)
(* [kind |-> "int"], a string [kind |-> "str"] or an absent key           *)
(* [kind |-> "missing"].                                                  *)
(***************************************************************************)
\* str.strip()
str_strip(s) ==
  LET solid == {i \in 1..Len(s) : s[i] \notin Whitespace}
      first == CHOOSE i \in solid : \A j \in 1..(i - 1) : j \notin solid
      last == CHOOSE i \in solid : \A j \in (i + 1)..Len(s) : j \notin solid
  IN IF solid = {} THEN <<>> ELSE SubSeq(s, first, last)

\* utils.sanitize_text.  The character class also holds the grave accent,
\* which is no character of the texts of the model.
sanitize_text(text) ==
  str_strip(str_remove(text, {"<", ">", "'", "\"", ";", "&", "|", "$"}))

\* py_int taking the default for a string that is no decimal number
py_int_lenient(v, default) ==
  IF v.kind = "int" THEN [raised |-> FALSE, val |-> v.val]
  ELSE [raised |-> FALSE, val |-> default]

\* int(data.get(key, default)): the integer, or the ValueError of int() on
\* a string that is no decimal number
py_int(v, default) ==
  LET digits(t) == IF Len(t) > 0 /\ t[1] \in {"+", "-"} THEN Tail(t) ELSE t
      sign(t) == IF Len(t) > 0 /\ t[1] = "-" THEN -1 ELSE 1
      of_str(t) == IF str_isdigit(digits(t))
                   THEN [raised |-> FALSE, val |-> sign(t) * str_int(digits(t))]
                   ELSE [raised |-> TRUE, val |-> 0]
  IN CASE v.kind = "missing" -> [raised |-> FALSE, val |-> default]
       [] v.kind = "int"     -> [raised |-> FALSE, val |-> v.val]
       [] v.kind = "str"     -> of_str(str_strip(v.val))

\* Database.update_statistics: the row of the type and the day is
\* incremented, or inserted when there is none
update_statistics(tables, analysis_type, is_scam, today) ==
  LET stats == tables.risk_statistics
      found == {k \in 1..Len(stats) :
                  stats[k].analysis_type = analysis_type /\ stats[k].date = today}
      result == CHOOSE k \in found : \A j \in found : k <= j
  IN IF found # {}
     THEN [tables EXCEPT !.risk_statistics[result] =
             [@ EXCEPT !.total_analyzed = @ + 1, !.scam_detected = @ + B2I(is_scam)]]
     ELSE [tables EXCEPT !.risk_statistics =
             Append(@, [id |-> Len(@) + 1, analysis_type |-> analysis_type,
                        total_analyzed |-> 1, scam_detected |-> B2I(is_scam),
                        date |-> today])]

\* Database.save_call_analysis; the timestamp is held as the day
save_call_analysis(tables, data, today) ==
  LET row(id) == [id               |-> id,
                  phone_number     |-> data.phone_number,
                  duration         |-> data.duration,
                  call_frequency   |-> data.call_frequency,
                  is_unknown       |-> data.is_unknown,
                  is_international |-> data.is_international,
                  risk_score       |-> data.risk_score,
                  risk_level       |-> data.risk_level,
                  is_scam          |-> data.is_scam,
                  timestamp        |-> today,
                  features         |-> data.features]
      inserted == [tables EXCEPT !.call_analysis = Append(@, row(Len(@) + 1))]
  IN update_statistics(inserted, "call", data.is_scam, today)

\* Database.save_sms_analysis; the timestamp is held as the day
save_sms_analysis(tables, data, today) ==
  LET row(id) == [id           |-> id,
                  sender       |-> data.sender,
                  message_text |-> data.message_text,
                  has_url      |-> data.has_url,
                  urls         |-> data.urls,
                  risk_score   |-> data.risk_score,
                  risk_level   |-> data.risk_level,
                  is_scam      |-> data.is_scam,
                  timestamp    |-> today,
                  features     |-> data.features]
      inserted == [tables EXCEPT !.sms_analysis = Append(@, row(Len(@) + 1))]
  IN update_statistics(inserted, "sms", data.is_scam, today)

\* api_analyze_call: the outcomes of one request.  analyzed tells whether
\* analyze_call was called; the response holds the error, or the analysis
\* and the assessment the alert is built from.
api_analyze_call(request, model, backend, tables, today) ==
  LET phone_number == str_strip(request.phone_number)
      rejected(status, error) ==
        {[status |-> status, analyzed |-> FALSE, response |-> [error |-> error],
          tables |-> tables]}
      answered(result) ==
        {[status |-> 200, analyzed |-> TRUE,
          response |-> [success |-> TRUE, analysis |-> result, assessment |-> assessment],
          tables |-> save_call_analysis(tables, result, today)]
         : assessment \in assess_overall_risk(result, None)}
      analysed(number, duration, call_frequency) ==
        IF duration.raised \/ call_frequency.raised
        THEN rejected(400, "Invalid input")
        ELSE UNION {answered(result) :
                      result \in analyze_call(number, duration.val, call_frequency.val,
                                              request.is_unknown, request.time_of_day,
                                              model, backend)}
  IN IF Len(phone_number) = 0 THEN rejected(400, "Phone number is required")
     ELSE analysed(sanitize_text(phone_number), py_int(request.duration, 30),
                   py_int(request.call_frequency, 1))

\* api_analyze_sms: the outcomes of one request, with the heap and the
\* field of the URLChecker afterwards.  The ValueError of analyze_url ends
\* the request with status 500.  When the rules score a message with urls
\* (no model, or a prediction that raised), a score strictly between 0 and
\* 100 is a numpy.float64 and is_scam a numpy.bool_, which sqlite3 cannot
\* bind: save_sms_analysis raises before the row is inserted, and the
\* request ends with status 500.
api_analyze_sms(request, model, backend, h, f, tables, today) ==
  LET stripped == str_strip(request.message_text)
      ended(status, analyzed, response, after, loop) ==
        [status |-> status, analyzed |-> analyzed, response |-> response,
         tables |-> after, heap |-> loop.heap, field |-> loop.field,
         refs |-> {loop.field} \cup
                  (IF status = 200 THEN RefsOf(loop.url_analysis) ELSE {})]
      rejected(error) ==
        {ended(400, FALSE, [error |-> error], tables,
               [heap |-> h, field |-> f, url_analysis |-> <<>>])}
      failed(loop) ==
        {ended(500, TRUE, [error |-> "An error occurred during analysis"], tables, loop)}
      numpy_bool(result) ==
        /\ model = "none" \/ backend.kind = "raise"
        /\ result.features.has_urls # 0
        /\ 0 < result.risk_score
        /\ result.risk_score < 10000
      answered(result, loop) ==
        IF numpy_bool(result) THEN failed(loop)
        ELSE {ended(200, TRUE,
                    [success |-> TRUE, analysis |-> result, assessment |-> assessment],
                    save_sms_analysis(tables, result, today), loop)
              : assessment \in assess_overall_risk(None, result)}
      scored(message_text, sender, loop) ==
        IF loop.raised THEN failed(loop)
        ELSE UNION {answered(result, loop) :
                      result \in analyze_message(message_text, sender, loop.url_analysis,
                                                 model, backend)}
      analysed(message_text, sender) ==
        scored(message_text, sender, run_url_loop(h, f, ExtractTable[message_text], <<>>))
  IN IF Len(stripped) = 0 THEN rejected("Message text is required")
     ELSE IF Len(stripped) > 5000
     THEN rejected("Message text too long (max 5000 characters)")
     ELSE analysed(sanitize_text(stripped), sanitize_text(request.sender))

\* The requests of the model.  A call request names a phone number between
\* blanks, or none, and numbers given as JSON integers, as strings, or left
\* out.
CallRequests ==
  LET number(n) == [kind |-> "int", val |-> n]
      string(t) == [kind |-> "str", val |-> t]
      missing == [kind |-> "missing"]
  IN [phone_number   : {<<>>,
                        <<" "," ">>,
                        \* " +234-555-1234 "
                        <<" ","+","2","3","4","-","5","5","5","-","1","2","3","4"," ">>},
      duration       : {string(<<" ","-","5">>), string(<<"a","b","c">>),
                        string(<<"1","2",".","5">>), missing},
      call_frequency : {number(3), string(<<"x">>), missing},
      is_unknown     : {TRUE},
      time_of_day    : {"night"}]

\* An sms request holds no text, blanks only, a message (between blanks,
\* with a character that sanitize_text removes, or followed by 5000
\* blanks) or 5001 characters
SmsRequests ==
  LET Filler(n) == [i \in 1..n |-> "a"]
      Blanks(n) == [i \in 1..n |-> " "]
      plain == <<"h","e","l","l","o",","," ","l","u","n","c","h"," ","a","t"," ","n","o","o","n","?">>
      links == <<"l","i","n","k","s",":"," ","b",".","t","k","/","x"," ","h","t","t","p","s",":","/","/","g","o","o","g","l","e",".","c","o","m"," ","h","t","t","p","s",":","/","/","b","i","t",".","l","y","/","a","b","c","1","2","3">>
      failing == <<"s","e","e"," ","h","t","t","p",":","/","/","e","x","a","m","p","l","e",".","c","o","m",":","9","9","9","9","9","/"," ","a","n","d"," ","b",".","t","k","/","x">>
  IN [message_text : {<<>>, Blanks(3), links, failing,
                      Blanks(2) \o plain \o Blanks(1),
                      plain \o <<";">>,
                      plain \o Blanks(5000),
                      Filler(5001)},
      sender       : {<<"1","2","3","4","5">>}]

\* the largest number of analysis rows of the model
MaxRows == 2

(***************************************************************************)
(* State                                                                   *)
(***************************************************************************)
VARIABLES
  call_model,    \* CallAnalyzer.model: "loaded" or "none"
  sms_model,     \* SMSAnalyzer.model: "loaded" or "none"
  risk_factors,  \* URLChecker.risk_factors: the address of a list
  heap,          \* the content of each live list
  ret,           \* the outcome of the call of an entry point, until the
                 \* caller has taken it
  thr,           \* the analyze_url call each thread is running
  db,            \* the tables of the database: the rows of call_analysis,
                 \* sms_analysis and risk_statistics in rowid order
  held           \* an outcome a caller has held on to, its lists copied, and
                 \* whether another input has been analysed since

vars == <<call_model, sms_model, risk_factors, heap, ret, thr, db, held>>

Idle == [op |-> "idle", raised |-> FALSE]
NotHeld == [outcome |-> Idle, others |-> FALSE]
IdleThread == [pc |-> "idle", url0 |-> <<>>, url |-> <<>>, risk_score |-> 0, result |-> 0]

\* After the constructors: each model is loaded or, when the load failed
\* or no path was given, None; URLChecker.risk_factors is an empty list
Init ==
  /\ call_model \in {"none", "loaded"}
  /\ sms_model \in {"none", "loaded"}
  /\ risk_factors = 1
  /\ heap = [a \in {1} |-> <<>>]
  /\ ret = Idle
  /\ thr = [t \in Threads |-> IdleThread]
  /\ db = [call_analysis |-> <<>>, sms_analysis |-> <<>>, risk_statistics |-> <<>>]
  /\ held = NotHeld

(***************************************************************************)
(* The analysis entry points, each called alone                            *)
(***************************************************************************)
\* CallAnalyzer.analyze_call
AnalyzeCall ==
  /\ ret = Idle
  /\ \E phone_number \in Phones, duration \in Durations, call_frequency \in Frequencies,
        is_unknown \in BOOLEAN, time_of_day \in TimesOfDay,
        backend \in IF call_model = "loaded" THEN Backends ELSE {NoBackend} :
       \E verdict \in analyze_call(phone_number, duration, call_frequency, is_unknown,
                                   time_of_day, call_model, backend) :
         ret' = [op |-> "analyze_call", raised |-> FALSE, value |-> verdict,
                 backend |-> backend, time_of_day |-> time_of_day]
  /\ UNCHANGED <<held, db, call_model, sms_model, risk_factors, heap, thr>>

\* URLChecker.analyze_url
AnalyzeUrl ==
  /\ ret = Idle
  /\ \E url \in Urls :
       \E r \in {run_analyze_url(heap, url)} :
          /\ ret' = [op |-> "analyze_url", raised |-> r.raised, value |-> r.value,
                     url |-> url]
          /\ risk_factors' = r.field
          /\ heap' = Collect(r.heap, {r.field})
  /\ UNCHANGED <<held, db, call_model, sms_model, thr>>

\* URLChecker.analyze_multiple_urls
AnalyzeMultipleUrls ==
  /\ ret = Idle
  /\ \E urls \in Batches :
       \E r \in {run_analyze_multiple_urls(heap, risk_factors, urls, <<>>)} :
          /\ ret' = [op |-> "analyze_multiple_urls", raised |-> FALSE,
                     value |-> r.results, urls |-> urls]
          /\ risk_factors' = r.field
          /\ heap' = Collect(r.heap, {r.field} \cup RefsOf(r.results))
  /\ UNCHANGED <<held, db, call_model, sms_model, thr>>

\* SMSAnalyzer.analyze_message: the ValueError of analyze_url is not
\* caught, and then the backend is never asked
AnalyzeMessage ==
  /\ ret = Idle
  /\ \E message_text \in Messages, sender \in Senders :
       \E r \in {run_url_loop(heap, risk_factors, ExtractTable[message_text], <<>>)} :
          /\ risk_factors' = r.field
          /\ IF r.raised
             THEN /\ ret' = [op |-> "analyze_message", raised |-> TRUE,
                             message_text |-> message_text, sender |-> sender,
                             backend |-> NoBackend]
                  /\ heap' = Collect(r.heap, {r.field})
             ELSE \E backend \in IF sms_model = "loaded" THEN Backends ELSE {NoBackend} :
                    \E verdict \in analyze_message(message_text, sender, r.url_analysis,
                                                   sms_model, backend) :
                      /\ ret' = [op |-> "analyze_message", raised |-> FALSE,
                                 value |-> verdict,
                                 message_text |-> message_text, sender |-> sender,
                                 backend |-> backend]
                      /\ heap' = Collect(r.heap, {r.field} \cup RefsOf(r.url_analysis))
  /\ UNCHANGED <<held, db, call_model, sms_model, thr>>

\* The caller takes the outcome: the result dictionaries are dropped, the
\* list URLChecker.risk_factors points to stays
Return ==
  /\ ret # Idle
  /\ ret' = Idle
  /\ heap' = Collect(heap, {risk_factors})
  /\ UNCHANGED <<held, db, call_model, sms_model, risk_factors, thr>>

\* one URLChecker
NextUrl == AnalyzeUrl \/ AnalyzeMultipleUrls \/ Return
SpecUrl == Init /\ [][NextUrl]_vars

\* the two scorers of the application
NextScorers == AnalyzeCall \/ AnalyzeMessage \/ Return
SpecScorers == Init /\ [][NextScorers]_vars

(***************************************************************************)
(* analyze_url called by several threads on one URLChecker.  Each thread   *)
(* runs the statements of analyze_url one check at a time; risk_score is   *)
(* a local of the call, the list is reached through self.risk_factors at   *)
(* every append and at the return.                                         *)
(***************************************************************************)
\* the lists some returned result still refers to
ResultRefs(th) == {th[t].result.risk_factors : t \in {x \in Threads : th[x].pc = "done"}}

\* lines 53-58: self.risk_factors = [], risk_score = 0, the scheme
BeginAnalyzeUrl(t) ==
  /\ thr[t].pc \in {"idle", "done", "raised"}
  /\ \E url \in ConcUrls :
       LET a == Fresh(heap)
           th == [thr EXCEPT ![t] = [pc |-> "parse", url0 |-> url,
                                     url |-> with_scheme(url),
                                     risk_score |-> 0, result |-> 0]]
       IN /\ thr' = th
          /\ risk_factors' = a
          /\ heap' = Collect(Store(heap, a, <<>>), {a} \cup ResultRefs(th))
  /\ UNCHANGED <<held, db, call_model, sms_model, ret>>

\* lines 61-62: urlparse raises, or the checks begin
StepParse(t) ==
  /\ thr[t].pc = "parse"
  /\ \E row \in {UrlTable[thr[t].url0]} :
       thr' = [thr EXCEPT ![t].pc = IF row.raised /\ row.error = "Invalid IPv6 URL"
                                    THEN "raised" ELSE CheckOrder[1]]
  /\ UNCHANGED <<held, db, call_model, sms_model, risk_factors, heap, ret>>

\* lines 64-137: one check
StepCheck(t) ==
  \E i \in 1..Len(CheckOrder) :
    /\ thr[t].pc = CheckOrder[i]
    /\ \E row \in {StepTable[thr[t].url0][i]},
          next \in {IF i < Len(CheckOrder) THEN CheckOrder[i + 1] ELSE "return"} :
          IF row.raises
          THEN /\ thr' = [thr EXCEPT ![t].pc = "raised"]
               /\ UNCHANGED heap
          ELSE IF row.triggered
          THEN /\ thr' = [thr EXCEPT ![t].pc = next,
                                     ![t].risk_score =
                                        ApplyCheck(CheckOrder[i], row.delta, @)]
               /\ heap' = [heap EXCEPT ![risk_factors] = Append(@, row.factor)]
          ELSE /\ thr' = [thr EXCEPT ![t].pc = next]
               /\ UNCHANGED heap
    /\ UNCHANGED <<held, db, call_model, sms_model, risk_factors, ret>>

\* lines 139-153: the cap and the returned dictionary
StepReturn(t) ==
  /\ thr[t].pc = "return"
  /\ \E risk_score \in {Min(100, thr[t].risk_score)} :
        thr' = [thr EXCEPT ![t].pc = "done",
                           ![t].risk_score = risk_score,
                           ![t].result =
                              [UrlTable[thr[t].url0].value EXCEPT
                                 !.risk_score = risk_score,
                                 !.risk_factors = risk_factors,
                                 !.is_suspicious = risk_score >= 50]]
  /\ UNCHANGED <<held, db, call_model, sms_model, risk_factors, heap, ret>>

\* one URLChecker serving the requests of the threads
NextConc ==
  \E t \in Threads :
    BeginAnalyzeUrl(t) \/ StepParse(t) \/ StepCheck(t) \/ StepReturn(t)
InitConc == Init /\ call_model = "none" /\ sms_model = "none"
SpecConc == InitConc /\ [][NextConc]_vars

(***************************************************************************)
(* The risk engine called with the verdicts of earlier analyses            *)
(***************************************************************************)
\* RiskEngine.assess_overall_risk
AssessOverallRisk ==
  /\ ret = Idle
  /\ \E call_result \in EngineResults, sms_result \in EngineResults :
       \E assessment \in assess_overall_risk(call_result, sms_result) :
         ret' = [op |-> "assess_overall_risk", raised |-> FALSE, value |-> assessment,
                 call_result |-> call_result, sms_result |-> sms_result]
  /\ UNCHANGED <<held, db, call_model, sms_model, risk_factors, heap, thr>>

\* RiskEngine.generate_awareness_alert, called with the assessment that
\* assess_overall_risk has returned
GenerateAwarenessAlert ==
  /\ ret # Idle
  /\ ret.op = "assess_overall_risk"
  /\ ret' = [op |-> "generate_awareness_alert", raised |-> FALSE,
             value |-> generate_awareness_alert(ret.value), assessment |-> ret.value]
  /\ UNCHANGED <<held, db, call_model, sms_model, risk_factors, heap, thr>>

\* RiskEngine.generate_risk_report on a list of at most MaxAnalyses records
GenerateRiskReport ==
  /\ ret = Idle
  /\ \E analyses \in SeqsUpTo({[risk_level |-> "LOW", risk_score |-> 1000, is_scam |-> FALSE],
                               [risk_level |-> "LOW", risk_score |-> 2499, is_scam |-> FALSE],
                               [risk_level |-> "MEDIUM", risk_score |-> 3000, is_scam |-> FALSE],
                               [risk_level |-> "HIGH", risk_score |-> 6001, is_scam |-> TRUE],
                               [risk_level |-> "CRITICAL", risk_score |-> 9000, is_scam |-> TRUE]},
                              MaxAnalyses) :
       \E report \in generate_risk_report(analyses) :
         ret' = [op |-> "generate_risk_report", raised |-> FALSE, value |-> report,
                 analyses |-> analyses]
  /\ UNCHANGED <<held, db, call_model, sms_model, risk_factors, heap, thr>>

\* one RiskEngine; the analyzers and their models take no part
NextEngine == AssessOverallRisk \/ GenerateAwarenessAlert \/ GenerateRiskReport \/ Return
SpecEngine == InitConc /\ [][NextEngine]_vars

(***************************************************************************)
(* The analyzers called again with an input analysed before.  A caller     *)
(* holds on to one outcome, by value, and notes when an outcome of another *)
(* input comes back after it.                                              *)
(***************************************************************************)
\* the arguments of the call an outcome comes from
Arguments(r) ==
  CASE r.op = "analyze_url"     -> <<r.op, r.url>>
    [] r.op = "analyze_message" -> <<r.op, r.message_text, r.sender, r.backend>>
    [] r.op = "analyze_call"    -> <<r.op, r.value.phone_number, r.value.duration,
                                     r.value.call_frequency, r.value.is_unknown,
                                     r.time_of_day, r.backend>>
    [] OTHER                    -> <<r.op>>

\* an outcome with the content of each risk_factors list in place of the
\* reference to it
Copied(r) ==
  LET deref(result) == [result EXCEPT !.risk_factors = heap[@]]
  IN IF r.raised THEN r
     ELSE CASE r.op = "analyze_url" -> [r EXCEPT !.value = deref(@)]
            [] r.op = "analyze_message" ->
                 [r EXCEPT !.value.url_analysis = [k \in DOMAIN @ |-> deref(@[k])]]
            [] OTHER -> r

\* The caller holds on to the outcome of an analysis of one of a few
\* inputs, or notes that the outcome of another input has come back
Hold ==
  LET sender == <<"1","2","3","4","5">>
      phone_number == <<"+","2","3","4","-","5","5","5","-","1","2","3","4">>
      chosen == {<<"analyze_url", U_tk>>}
                \cup {<<"analyze_message", m, sender, NoBackend>> :
                        m \in {t \in Messages : Len(ExtractTable[t]) >= 3}}
                \cup {<<"analyze_call", phone_number, 8, 3, TRUE, "night", NoBackend>>}
  IN /\ ret # Idle
     /\ \/ /\ held = NotHeld
           /\ Arguments(ret) \in chosen
           /\ held' = [outcome |-> Copied(ret), others |-> FALSE]
        \/ /\ held # NotHeld
           /\ ~held.others
           /\ Arguments(ret) # Arguments(held.outcome)
           /\ held' = [held EXCEPT !.others = TRUE]
     /\ UNCHANGED <<db, call_model, sms_model, risk_factors, heap, ret, thr>>

\* the analyzers without trained models, and one caller
NextRerun == AnalyzeCall \/ AnalyzeUrl \/ AnalyzeMessage \/ Hold \/ Return
SpecRerun == InitConc /\ [][NextRerun]_vars

(***************************************************************************)
(* The request handlers of the application                                 *)
(***************************************************************************)
\* api_analyze_call
ApiAnalyzeCall ==
  /\ ret = Idle
  /\ \E request \in CallRequests, today \in {"2024-01-01"},
        backend \in IF call_model = "loaded" THEN Backends ELSE {NoBackend} :
       \E r \in api_analyze_call(request, call_model, backend, db, today) :
         /\ Len(r.tables.call_analysis) + Len(r.tables.sms_analysis) <= MaxRows
         /\ ret' = [op |-> "api_analyze_call", raised |-> FALSE, request |-> request,
                    status |-> r.status, analyzed |-> r.analyzed, value |-> r.response]
         /\ db' = r.tables
  /\ UNCHANGED <<held, call_model, sms_model, risk_factors, heap, thr>>

\* api_analyze_sms
ApiAnalyzeSms ==
  /\ ret = Idle
  /\ \E request \in SmsRequests, today \in {"2024-01-01"},
        backend \in IF sms_model = "loaded" THEN Backends ELSE {NoBackend} :
       \E r \in api_analyze_sms(request, sms_model, backend, heap, risk_factors, db, today) :
         /\ Len(r.tables.call_analysis) + Len(r.tables.sms_analysis) <= MaxRows
         /\ ret' = [op |-> "api_analyze_sms", raised |-> FALSE, request |-> request,
                    status |-> r.status, analyzed |-> r.analyzed, value |-> r.response]
         /\ db' = r.tables
         /\ risk_factors' = r.field
         /\ heap' = Collect(r.heap, r.refs)
  /\ UNCHANGED <<held, call_model, sms_model, thr>>

\* the application, started without trained models, serving one request at
\* a time
NextApp == ApiAnalyzeCall \/ ApiAnalyzeSms \/ Return
SpecApp == InitConc /\ [][NextApp]_vars

(***************************************************************************)
(* Concurrent saves on one database file                                   *)
(***************************************************************************)
\* the write of update_statistics with every analysis counted as a scam
write_statistics_every_scam(tables, result, analysis_type, is_scam, today) ==
  IF result # 0
  THEN [tables EXCEPT !.risk_statistics[result] =
          [@ EXCEPT !.total_analyzed = @ + 1, !.scam_detected = @ + 1]]
  ELSE [tables EXCEPT !.risk_statistics =
          Append(@, [id |-> Len(@) + 1, analysis_type |-> analysis_type,
                     total_analyzed |-> 1, scam_detected |-> 1, date |-> today])]

\* Database.update_statistics after fetchone: the UPDATE of the row whose
\* id was fetched, computed by sqlite on the row as it is when the
\* statement runs, or the INSERT of a new row when nothing was fetched
\* (result 0 stands for None; ids start at 1 and no row is deleted)
write_statistics(tables, result, analysis_type, is_scam, today) ==
  IF result # 0
  THEN [tables EXCEPT !.risk_statistics[result] =
          [@ EXCEPT !.total_analyzed = @ + 1, !.scam_detected = @ + B2I(is_scam)]]
  ELSE [tables EXCEPT !.risk_statistics =
          Append(@, [id |-> Len(@) + 1, analysis_type |-> analysis_type,
                     total_analyzed |-> 1, scam_detected |-> B2I(is_scam),
                     date |-> today])]

\* the saves of one run of the request threads
MaxSaves == 3

\* save_call_analysis / save_sms_analysis up to the commit of the inserted
\* row, on a connection of the thread's own; the row holds the columns the
\* statistics are compared with
SaveAnalysis(t) ==
  /\ thr[t].pc = "idle"
  /\ Len(db.call_analysis) + Len(db.sms_analysis) < MaxSaves
  /\ \E analysis_type \in {"call", "sms"}, is_scam \in BOOLEAN,
        risk_level \in {"LOW", "HIGH"} :
       LET table == IF analysis_type = "call" THEN "call_analysis" ELSE "sms_analysis"
           row == [id |-> Len(db[table]) + 1, risk_level |-> risk_level,
                   is_scam |-> is_scam, timestamp |-> "2024-01-01"]
       IN /\ db' = [db EXCEPT ![table] = Append(@, row)]
          /\ thr' = [thr EXCEPT ![t] = [pc |-> "inserted", analysis_type |-> analysis_type,
                                        is_scam |-> is_scam]]
  /\ UNCHANGED <<held, ret, call_model, sms_model, risk_factors, heap>>

\* update_statistics up to fetchone, on another connection: the first row
\* of the type and the day, as the table is at this moment
SelectStatistics(t) ==
  /\ thr[t].pc = "inserted"
  /\ \E today \in {"2024-01-01"} :
       LET stats == db.risk_statistics
           found == {k \in 1..Len(stats) :
                       stats[k].analysis_type = thr[t].analysis_type
                       /\ stats[k].date = today}
           result == IF found = {} THEN 0
                     ELSE stats[CHOOSE k \in found : \A j \in found : k <= j].id
       IN thr' = [thr EXCEPT ![t] = [pc |-> "selected",
                                     analysis_type |-> thr[t].analysis_type,
                                     is_scam |-> thr[t].is_scam,
                                     today |-> today, result |-> result]]
  /\ UNCHANGED <<held, db, ret, call_model, sms_model, risk_factors, heap>>

\* update_statistics from the UPDATE or INSERT to the commit and the close:
\* the save is completed
WriteStatistics(t) ==
  /\ thr[t].pc = "selected"
  /\ db' = write_statistics(db, thr[t].result, thr[t].analysis_type,
                            thr[t].is_scam, thr[t].today)
  /\ thr' = [thr EXCEPT ![t] = IdleThread]
  /\ UNCHANGED <<held, ret, call_model, sms_model, risk_factors, heap>>

\* the request threads saving analyses
NextDb == \E t \in Threads : SaveAnalysis(t) \/ SelectStatistics(t) \/ WriteStatistics(t)
SpecDb == InitConc /\ [][NextDb]_vars

(***************************************************************************)
(* Properties                                                              *)
(***************************************************************************)
\* analyze_call or analyze_message has returned a verdict
IsVerdict == ret.op \in {"analyze_call", "analyze_message"} /\ ~ret.raised

\* the step classification of a risk_score given in hundredths
LevelOf(hundredths) ==
  IF hundredths >= 7500 THEN "CRITICAL"
  ELSE IF hundredths >= 5000 THEN "HIGH"
  ELSE IF hundredths >= 2500 THEN "MEDIUM"
  ELSE "LOW"

\* C1: in every verdict of analyze_call and analyze_message, is_scam is
\* true exactly when the returned (rounded) risk_score is at least 50.
C1_ScamIffReturnedScoreAtLeast50 ==
  IsVerdict => (ret.value.is_scam <=> ret.value.risk_score >= 5000)

\* C2: in every verdict, risk_level is the step classification of the
\* returned (rounded) risk_score with breakpoints 25, 50 and 75.
C2_LevelIsStepOfReturnedScore ==
  IsVerdict => ret.value.risk_level = LevelOf(ret.value.risk_score)

\* C3: whatever the backend does, the returned risk_score is in [0,100].
C3_ScoreWithinRange ==
  IsVerdict => (0 <= ret.value.risk_score /\ ret.value.risk_score <= 10000)

\* the verdicts the rule-based scorer yields for the inputs of ret
RuleBasedVerdicts ==
  IF ret.op = "analyze_call"
  THEN analyze_call(ret.value.phone_number, ret.value.duration,
                    ret.value.call_frequency, ret.value.is_unknown,
                    ret.time_of_day, "none", NoBackend)
  ELSE analyze_message(ret.message_text, ret.sender, ret.value.url_analysis,
                       "none", NoBackend)

\* C4: when the prediction of a loaded backend raises, analyze_call and
\* analyze_message return a verdict whose risk_score, risk_level and
\* is_scam are those of the rule-based scorer on the same inputs.
C4_BackendErrorFallsBackToRules ==
  (ret.op \in {"analyze_call", "analyze_message"} /\ ret.backend.kind = "raise") =>
     /\ ~ret.raised
     /\ \E v \in RuleBasedVerdicts :
          /\ v.risk_score = ret.value.risk_score
          /\ v.risk_level = ret.value.risk_level
          /\ v.is_scam = ret.value.is_scam

\* a backend error on a call and on a message that the rules score as scam
C4_Witness ==
  /\ ret.op \in {"analyze_call", "analyze_message"}
  /\ ret.backend.kind = "raise"
  /\ ~ret.raised
  /\ ret.value.is_scam
  /\ ret.value.risk_score < 10000

\* C5: the risk_factors of every result returned by concurrent analyze_url
\* calls are exactly the factor strings of its own url, in check order.
C5_ResultHoldsOwnFactorsOnly ==
  \A t \in Threads :
    thr[t].pc = "done" =>
      heap[thr[t].result.risk_factors] = UrlTable[thr[t].url0].value.risk_factors

\* C6: analyze_url returns a result and never raises, for every input.
C6_AnalyzeUrlNeverRaises ==
  ret.op = "analyze_url" => ~ret.raised

\* C7: analyze_message returns a verdict even when analyze_url fails on an
\* extracted url; the failing url is replaced by the default result (risk
\* 50, suspicious) and every extracted url is analyzed and counted.
C7_MessageSurvivesUrlFailure ==
  ret.op = "analyze_message" =>
    /\ ~ret.raised
    /\ LET urls == ExtractTable[ret.message_text]
           url_analysis == ret.value.url_analysis
       IN /\ Len(url_analysis) = Len(urls)
          /\ ret.value.features.url_count = Len(urls)
          /\ \A k \in 1..Len(urls) :
               UrlTable[urls[k]].raised =>
                 url_analysis[k].risk_score = 50 /\ url_analysis[k].is_suspicious

\* a result with the content of its list in place of the reference
Deref(result) == [result EXCEPT !.risk_factors = heap[@]]

\* C8: analyze_multiple_urls returns one entry per input url, in input
\* order: the substitute (risk 50, suspicious, error marker) where
\* analyze_url fails, and what analyze_url returns everywhere else.
C8_BatchHasOneEntryPerUrl ==
  ret.op = "analyze_multiple_urls" =>
    /\ ~ret.raised
    /\ Len(ret.value) = Len(ret.urls)
    /\ \A k \in 1..Len(ret.urls) :
         IF UrlTable[ret.urls[k]].raised
         THEN /\ DOMAIN ret.value[k] = {"url", "error", "risk_score", "is_suspicious"}
              /\ ret.value[k].url = ret.urls[k]
              /\ ret.value[k].risk_score = 50
              /\ ret.value[k].is_suspicious
         ELSE Deref(ret.value[k]) = UrlTable[ret.urls[k]].value

\* a failing url between two urls that analyze_url accepts
C8_Witness ==
  /\ ret.op = "analyze_multiple_urls"
  /\ Len(ret.urls) >= 3
  /\ ~UrlTable[ret.urls[1]].raised
  /\ UrlTable[ret.urls[2]].raised
  /\ ~UrlTable[ret.urls[3]].raised
  /\ Len(heap[ret.value[1].risk_factors]) > 0

\* the sum of the increments of the triggered signals other than the
\* trusted-domain reduction, for each url analyze_url accepts
RECURSIVE OtherSignalsFrom(_, _, _, _)
OtherSignalsFrom(url, parsed, extracted, i) ==
  IF i > Len(CheckOrder) THEN 0
  ELSE (IF CheckOrder[i] # "trusted" /\ CheckTriggered(CheckOrder[i], url, parsed, extracted)
        THEN CheckDelta(CheckOrder[i], url) ELSE 0)
       + OtherSignalsFrom(url, parsed, extracted, i + 1)

OtherSignals ==
  LET signals(url) == OtherSignalsFrom(url, urlparse(url), tldextract_extract(url), 1)
  IN [u \in {x \in Urls : ~UrlTable[x].raised} |-> signals(with_scheme(u))]

\* C9: for a url of a trusted domain the final risk_score is
\* min(100, max(0, S - 30)), S the sum of all other triggered increments:
\* the reduction acts as if applied last, whatever the order of checks.
C9_TrustedReductionAppliedLast ==
  (ret.op = "analyze_url" /\ ~ret.raised /\ ret.value.is_trusted) =>
     ret.value.risk_score = Min(100, Max(0, OtherSignals[ret.url] - 30))

\* the factor strings of "http://secure-banking-verify.tk/account"
TkFactors ==
  <<[msg |-> "Not using secure HTTPS protocol", arg |-> <<>>],
    [msg |-> "Contains suspicious keywords: ",
     arg |-> <<"v","e","r","i","f","y",","," ","a","c","c","o","u","n","t",","," ",
               "s","e","c","u","r","e",","," ","b","a","n","k","i","n","g">>],
    [msg |-> "Uses risky top-level domain", arg |-> <<"t","k">>]>>

\* C10 as stated: the .tk url triggers non-HTTPS, the four keywords and
\* the risky TLD, and scores 100 with is_suspicious true.
C10_TkUrlScores100 ==
  (ret.op = "analyze_url" /\ ret.url = U_tk) =>
     /\ ~ret.raised
     /\ heap[ret.value.risk_factors] = TkFactors
     /\ ret.value.risk_score = 100
     /\ ret.value.is_suspicious

\* C10 amended: the same signals, and the score is their sum 15 + 40 + 25
\* = 80, below the cap.
C10_TkUrlScores80 ==
  (ret.op = "analyze_url" /\ ret.url = U_tk) =>
     /\ ~ret.raised
     /\ heap[ret.value.risk_factors] = TkFactors
     /\ ret.value.risk_score = 80
     /\ ret.value.is_suspicious

\* analyze_url has returned for the .tk url
C10_Witness ==
  /\ ret.op = "analyze_url"
  /\ ret.url = U_tk
  /\ ~ret.raised

\* the terms of the call score as the specification lists them: each is a
\* condition on the feature set and the points it adds
CallTerms(f) ==
  <<[on |-> f.is_unknown = 1,                          points |-> 20],
    [on |-> f.unknown_and_international = 1,           points |-> 25],
    [on |-> f.is_risky_country = 1,                    points |-> 30],
    [on |-> f.very_short_call = 1,                     points |-> 15],
    [on |-> f.excessive_calls = 1,                     points |-> 25],
    [on |-> f.excessive_calls = 0 /\ f.repeated_calls = 1, points |-> 10],
    [on |-> f.has_repeated_digits = 1,                 points |-> 10],
    [on |-> f.has_sequential_digits = 1,               points |-> 10],
    [on |-> f.time_risk >= 3,                          points |-> 15],
    [on |-> f.short_and_repeated = 1,                  points |-> 20],
    [on |-> f.normal_call = 1 /\ f.is_unknown = 0,     points |-> -15],
    [on |-> f.long_call = 1,                           points |-> -10]>>

\* the sum of the points of the terms whose condition holds
TermSum(terms) ==
  SumSeq([k \in 1..Len(terms) |-> IF terms[k].on THEN terms[k].points ELSE 0])

\* analyze_call has returned a verdict of the rule-based scorer
IsRuleBasedCall == ret.op = "analyze_call" /\ ~ret.raised /\ call_model = "none"

\* C11: the rule-based score of a call is the listed sum of points clamped
\* to [0,100]; the unknown "+234-555-1234" call of 8 seconds, frequency 3,
\* at night scores 100 and is CRITICAL.
C11_CallRuleScoreIsClampedSum ==
  IsRuleBasedCall =>
    /\ ret.value.risk_score
          = 100 * Min(100, Max(0, TermSum(CallTerms(ret.value.features))))
    /\ (/\ ret.value.phone_number = <<"+","2","3","4","-","5","5","5","-","1","2","3","4">>
        /\ ret.value.duration = 8
        /\ ret.value.call_frequency = 3
        /\ ret.value.is_unknown
        /\ ret.time_of_day = "night")
       => (ret.value.risk_score = 10000 /\ ret.value.risk_level = "CRITICAL")

\* the call of the example: its sum of points exceeds 100 and is clamped
C11_Witness ==
  /\ IsRuleBasedCall
  /\ TermSum(CallTerms(ret.value.features)) > 100
  /\ ret.value.duration = 8
  /\ ret.value.call_frequency = 3
  /\ ret.value.features.is_risky_country = 1
  /\ ret.time_of_day = "night"

\* the terms of the message score as the specification lists them, the
\* url term and the keyword term aside
MessageTerms(f) ==
  <<[on |-> f.has_urgency,                  points |-> 15],
    [on |-> f.requests_action,              points |-> 10],
    [on |-> f.mentions_money,               points |-> 15],
    [on |-> f.mentions_account,             points |-> 12],
    [on |-> f.has_threat,                   points |-> 20],
    [on |-> f.exclamation_count > 2,        points |-> 10],
    [on |-> 10 * f.uppercase_ratio.num > 3 * f.uppercase_ratio.den, points |-> 10],
    [on |-> f.sender_is_shortcode /\ f.legitimate_keyword_count = 0, points |-> 10],
    [on |-> f.legitimate_keyword_count > 0, points |-> -20]>>

\* analyze_message has returned a verdict of the rule-based scorer
IsRuleBasedMessage == ret.op = "analyze_message" /\ ~ret.raised /\ sms_model = "none"

\* the risk scores of the url results of the returned verdict
UrlScores == [k \in 1..Len(ret.value.url_analysis) |-> ret.value.url_analysis[k].risk_score]

\* The score the specification gives the returned verdict, before the
\* clamp, as num/den: 0.4 times the mean of the url scores (nothing with
\* no url) plus min(10 * keywords, 30) plus the points of the terms
StatedMessageScore ==
  LET n == Len(UrlScores)
      points == Min(ret.value.features.scam_keyword_count * 10, 30)
                + TermSum(MessageTerms(ret.value.features))
  IN IF n > 0 THEN Q(4 * SumSeq(UrlScores) + 10 * n * points, 10 * n)
     ELSE Q(points, 1)

\* C12: the rule-based score of a message is the listed sum clamped to
\* [0,100], avg_url_risk being the arithmetic mean of the url risk scores
\* and 0 with no url.
C12_MessageRuleScoreIsClampedSum ==
  IsRuleBasedMessage =>
    /\ ret.value.risk_score \in Round2(QClamp(StatedMessageScore))
    /\ LET avg == ret.value.features.avg_url_risk
           n == Len(UrlScores)
       IN IF n > 0 THEN avg.num * n = SumSeq(UrlScores) * avg.den ELSE avg.num = 0

\* a message with several urls of different scores whose sum of points
\* lies strictly inside the range and is no whole number
C12_Witness ==
  /\ IsRuleBasedMessage
  /\ Len(UrlScores) >= 2
  /\ UrlScores[1] # UrlScores[2]
  /\ ret.value.risk_score > 0
  /\ ret.value.risk_score < 10000
  /\ ret.value.risk_score % 100 # 0

\* assess_overall_risk has returned
IsAssessment == ret.op = "assess_overall_risk" /\ ~ret.raised

\* the number of verdicts it was given
InputCount == B2I(ret.call_result # None) + B2I(ret.sms_result # None)

\* round(x, 2) of x = n / 10000 in hundredths: the nearest hundredth, one
\* of the two neighbours at a tie
IsRounded(hundredths, n) == 100 * hundredths - 50 <= n /\ n <= 100 * hundredths + 50

\* C13: with two verdicts the overall_risk_score is round(call * 0.45 +
\* message * 0.55, 2), the verdict given as call_result taking 0.45; the
\* scores 75 and 85 give 80.5.
C13_TwoInputsWeightedBlend ==
  (IsAssessment /\ InputCount = 2) =>
    /\ IsRounded(ret.value.overall_risk_score,
                 45 * ret.call_result.risk_score + 55 * ret.sms_result.risk_score)
    /\ (ret.call_result.risk_score = 7500 /\ ret.sms_result.risk_score = 8500)
         => ret.value.overall_risk_score = 8050

\* the call verdict of score 75 and a message verdict of score 85
C13_Witness ==
  /\ IsAssessment
  /\ InputCount = 2
  /\ "phone_number" \in DOMAIN ret.call_result
  /\ "message_text" \in DOMAIN ret.sms_result
  /\ ret.call_result.risk_score = 7500
  /\ ret.sms_result.risk_score = 8500

\* C14: the risk_level of every assessment is the step classification of
\* the returned overall_risk_score with breakpoints 25, 50 and 75.
C14_LevelIsStepOfOverallScore ==
  IsAssessment => ret.value.risk_level = LevelOf(ret.value.overall_risk_score)

\* C15: with one verdict the overall_risk_score is that verdict's
\* risk_score and risk_sources names that source alone.
C15_OneInputScoreUnmodified ==
  (IsAssessment /\ InputCount = 1) =>
    IF ret.call_result # None
    THEN /\ ret.value.overall_risk_score = ret.call_result.risk_score
         /\ ret.value.risk_sources = <<"call">>
    ELSE /\ ret.value.overall_risk_score = ret.sms_result.risk_score
         /\ ret.value.risk_sources = <<"sms">>

\* a single message verdict whose score is no whole number of points
C15_Witness ==
  /\ IsAssessment
  /\ InputCount = 1
  /\ ret.sms_result # None
  /\ ret.sms_result.risk_score % 100 # 0
  /\ ret.value.overall_risk_score > 0

\* the recommendations handed in: those of the call verdict, then those of
\* the message verdict
AllRecommendations ==
  (IF ret.call_result # None THEN ret.call_result.recommendations ELSE <<>>)
  \o (IF ret.sms_result # None THEN ret.sms_result.recommendations ELSE <<>>)

\* the positions of AllRecommendations that hold the first occurrence of
\* their string
FirstPositions ==
  {i \in 1..Len(AllRecommendations) :
     \A j \in 1..(i - 1) : AllRecommendations[j] # AllRecommendations[i]}

\* C16: the recommendations are the call verdict's followed by the message
\* verdict's, each string kept at its first occurrence only, cut to the first
\* 8: no duplicates, at most 8 entries, first-seen order.
C16_RecommendationsDedupedTop8 ==
  IsAssessment =>
    LET recs == ret.value.recommendations
    IN /\ Len(recs) = Min(8, Cardinality(FirstPositions))
       /\ \A k \in 1..Len(recs) :
            \E i \in FirstPositions :
              /\ Cardinality({j \in FirstPositions : j < i}) = k - 1
              /\ recs[k] = AllRecommendations[i]
       /\ \A k, l \in 1..Len(recs) : recs[k] = recs[l] => k = l

\* two verdicts that share strings and together hold more than 8 distinct
\* ones
C16_Witness ==
  /\ IsAssessment
  /\ InputCount = 2
  /\ Cardinality(FirstPositions) < Len(AllRecommendations)
  /\ Cardinality(FirstPositions) > 8
  /\ Len(ret.value.recommendations) = 8

\* C17: every result of analyze_url has 0 <= risk_score <= 100, and
\* is_suspicious is true exactly when risk_score >= 50.
C17_UrlScoreInRangeAndFlagged ==
  (ret.op = "analyze_url" /\ ~ret.raised) =>
    /\ 0 <= ret.value.risk_score
    /\ ret.value.risk_score <= 100
    /\ ret.value.is_suspicious <=> ret.value.risk_score >= 50

\* a result whose signals add up to more than 100
C17_Witness ==
  /\ ret.op = "analyze_url"
  /\ ~ret.raised
  /\ OtherSignals[ret.url] > 100
  /\ ret.value.risk_score = 100
  /\ ret.value.is_suspicious

\* the urls of the model whose host is a literal IP address: the IPv4
\* "http://192.168.1.1/login" and the IPv6 "http://[::1]:8080/x"
IpLiteralUrls ==
  {U_ip, <<"h","t","t","p",":","/","/","[",":",":","1","]",":","8","0","8","0","/","x">>}

\* C18: for every url whose host is a literal IPv4 or bracketed IPv6
\* address, with or without a port, analyze_url appends the IP-address
\* factor and adds 30; "http://192.168.1.1/login" also triggers non-HTTPS
\* and scores at least 45.
C18_IpLiteralTriggersSignal ==
  (ret.op = "analyze_url" /\ ret.url \in IpLiteralUrls) =>
    /\ ~ret.raised
    /\ [msg |-> "Uses IP address instead of domain name", arg |-> <<>>]
         \in Range(heap[ret.value.risk_factors])
    /\ ret.value.risk_score >= 30
    /\ ret.url = U_ip =>
         /\ [msg |-> "Not using secure HTTPS protocol", arg |-> <<>>]
              \in Range(heap[ret.value.risk_factors])
         /\ ret.value.risk_score >= 45

\* The requests the handlers turn down.  The message text is measured as
\* the handler takes it, with the surrounding whitespace removed.
IsHandlerStep(op) == ret = Idle /\ ret' # Idle /\ ret'.op = op
Unparseable(v) ==
  /\ v.kind = "str"
  /\ LET u == str_strip(v.val)
         d == IF Len(u) > 0 /\ u[1] \in {"+", "-"} THEN Tail(u) ELSE u
     IN ~(Len(d) > 0 /\ \A k \in 1..Len(d) :
                          d[k] \in {"0", "1", "2", "3", "4", "5", "6", "7", "8", "9"})
InvalidCallRequest(request) ==
  \/ Len(str_strip(request.phone_number)) = 0
  \/ Unparseable(request.duration)
  \/ Unparseable(request.call_frequency)
InvalidSmsRequest(request) ==
  \/ Len(str_strip(request.message_text)) = 0
  \/ Len(str_strip(request.message_text)) > 5000
Rejected ==
  /\ ret'.status = 400
  /\ "error" \in DOMAIN ret'.value
  /\ ~ret'.analyzed
  /\ UNCHANGED <<db, heap, risk_factors, call_model, sms_model>>

\* C19: a request to the call or SMS analysis endpoint whose phone number
\* or message text is empty, whose message text, with the surrounding
\* whitespace removed, exceeds 5000 characters, or whose duration or call
\* frequency is no number is answered with status 400 and an error; the
\* scorer is not invoked and no table, nor the URL checker, changes.
C19_InvalidRequestRejected ==
  [][/\ (IsHandlerStep("api_analyze_call") /\ InvalidCallRequest(ret'.request)
         => Rejected)
     /\ (IsHandlerStep("api_analyze_sms") /\ InvalidSmsRequest(ret'.request)
         => Rejected)]_vars

\* C19 as stated, the message text measured as the request carries it: a
\* request whose message_text is longer than 5000 characters is rejected
\* and nothing is analysed or written.
C19_LongMessageTextRejected ==
  [][IsHandlerStep("api_analyze_sms") /\ Len(ret'.request.message_text) > 5000
       => Rejected]_vars

\* C19 witness: after an analysis has been saved, a message of 5001
\* characters has been rejected and the tables still hold that one row
C19_Witness ==
  /\ ret # Idle
  /\ ret.op = "api_analyze_sms"
  /\ Len(str_strip(ret.request.message_text)) > 5000
  /\ ret.status = 400
  /\ ~ret.analyzed
  /\ Len(db.call_analysis) + Len(db.sms_analysis) = 1
  /\ Len(db.risk_statistics) = 1

\* C20: analyze_call, analyze_message or analyze_url called again with the
\* arguments of an earlier call, whatever was analysed in between, ends as
\* the earlier call did: it raises again, or returns the same result, the
\* risk factors of every url included.
C20_RerunIsIdentical ==
  /\ held # NotHeld
  /\ ret # Idle
  /\ Arguments(ret) = Arguments(held.outcome)
  => Copied(ret) = held.outcome

\* C20 witness: analyze_url has returned for the url of a held result with
\* risk factors, after the outcome of another input came back, and the
\* two results are equal
C20_Witness ==
  /\ held # NotHeld
  /\ held.others
  /\ ret # Idle
  /\ ret.op = "analyze_url"
  /\ ~ret.raised
  /\ Arguments(ret) = Arguments(held.outcome)
  /\ Len(heap[ret.value.risk_factors]) >= 2
  /\ Copied(ret) = held.outcome

\* C23: whenever the rule-based message scorer returns a verdict with
\* is_scam true, its explanation holds at least one indicator sentence: it
\* is not the single sentence "No significant risk indicators detected".
C23_ScamVerdictIsExplained ==
  IsRuleBasedMessage /\ ret.value.is_scam
  => ret.value.explanation # <<Sentence("No significant risk indicators detected")>>

\* the cleaned number of the verdict begins with a listed high-risk prefix
HasRiskyPrefix ==
  LET clean == str_remove(ret.value.phone_number, {" ", "-", "(", ")"})
  IN \E code \in {<<"+","3","7","5">>, <<"+","3","7","1">>, <<"+","2","5","4">>,
                  <<"+","2","3","4">>, <<"+","2","3","3">>, <<"+","8","8","0">>,
                  <<"+","9","2">>, <<"+","6","2">>, <<"+","8","4">>} :
       Len(clean) >= Len(code) /\ SubSeq(clean, 1, Len(code)) = code

\* C28: the rule-based verdict of a call from a number not in the contacts
\* whose cleaned number begins with a listed high-risk prefix is a scam
\* verdict: the number is international, the score is at least 65
\* whatever the duration, the frequency and the time of day, and the
\* level is HIGH or CRITICAL.
C28_RiskyCountryUnknownIsScam ==
  IsRuleBasedCall /\ ret.value.is_unknown /\ HasRiskyPrefix
  => /\ ret.value.features.is_international = 1
     /\ ret.value.is_international = 1
     /\ ret.value.risk_score >= 6500
     /\ ret.value.is_scam
     /\ ret.value.risk_level \in {"HIGH", "CRITICAL"}

\* C28 witness: such a call of five minutes, the only one from its number,
\* in business hours, scored 65 exactly
C28_Witness ==
  /\ IsRuleBasedCall /\ ret.value.is_unknown /\ HasRiskyPrefix
  /\ ret.value.duration >= 300
  /\ ret.value.call_frequency = 1
  /\ ret.time_of_day = "business_hours"
  /\ ret.value.risk_score = 6500
  /\ ret.value.risk_level = "HIGH"

\* C30: call feature extraction sets exactly one of the duration buckets
\* very_short (< 10), short (10-29), normal (30-299), long (>= 300), and
\* exactly one of single_call and repeated_calls; excessive_calls implies
\* repeated_calls, and short_and_repeated holds exactly when the duration
\* is below 30 and the frequency above 1.
C30_DurationAndFrequencyBuckets ==
  ret.op = "analyze_call" /\ ~ret.raised
  => LET f == ret.value.features
         d == ret.value.duration
         n == ret.value.call_frequency
     IN /\ f.very_short_call + f.short_call + f.normal_call + f.long_call = 1
        /\ f.very_short_call = 1 <=> d < 10
        /\ f.short_call = 1 <=> 10 <= d /\ d <= 29
        /\ f.normal_call = 1 <=> 30 <= d /\ d <= 299
        /\ f.long_call = 1 <=> d >= 300
        /\ f.single_call + f.repeated_calls = 1
        /\ f.single_call = 1 <=> n = 1
        /\ f.excessive_calls = 1 => f.repeated_calls = 1
        /\ f.excessive_calls = 1 <=> n > 5
        /\ f.short_and_repeated = 1 <=> d < 30 /\ n > 1

\* C30 witness: a call of 29 seconds, the sixth from its number: the short
\* bucket alone, repeated and excessive, short and repeated
C30_Witness ==
  /\ ret.op = "analyze_call" /\ ~ret.raised
  /\ ret.value.duration = 29
  /\ ret.value.call_frequency = 6
  /\ ret.value.features.short_call = 1
  /\ ret.value.features.very_short_call = 0
  /\ ret.value.features.repeated_calls = 1
  /\ ret.value.features.excessive_calls = 1
  /\ ret.value.features.short_and_repeated = 1

\* the safety tips of an alert are the first five, if that many, of tips
IsTop5Of(tips) ==
  ret.value.safety_tips = SubSeq(tips, 1, IF Len(tips) < 5 THEN Len(tips) ELSE 5)

\* C21: generate_awareness_alert takes the safety tips from one category:
\* the sms tips when 'sms' is among the sources of the assessment,
\* otherwise the call tips when 'call' is, otherwise the general tips; it
\* returns the first five of them at most.
C21_SafetyTipsByPriority ==
  ret.op = "generate_awareness_alert"
  => LET sources == {ret.assessment.risk_sources[k] :
                       k \in 1..Len(ret.assessment.risk_sources)}
     IN /\ Len(ret.value.safety_tips) <= 5
        /\ "sms" \in sources => IsTop5Of(get_safety_tips("sms"))
        /\ "sms" \notin sources /\ "call" \in sources => IsTop5Of(get_safety_tips("call"))
        /\ sources = {} => IsTop5Of(get_safety_tips("general"))

\* C21 witness: the alert of an assessment of a call and a message holds
\* the four sms tips and none of the call tips
C21_Witness ==
  /\ ret.op = "generate_awareness_alert"
  /\ ret.assessment.risk_sources = <<"call", "sms">>
  /\ Len(ret.value.safety_tips) = 4
  /\ ret.value.safety_tips[1] = "Don't click on shortened URLs from unknown numbers"
  /\ \A k \in 1..4 : \A j \in 1..Len(get_safety_tips("call")) :
        ret.value.safety_tips[k] # get_safety_tips("call")[j]

\* the number of the analyses of the report in ret that satisfy a condition
CountWhere(Cond(_)) == Cardinality({k \in 1..Len(ret.analyses) : Cond(ret.analyses[k])})
WithLevel(level) == LET has(a) == a.risk_level = level IN CountWhere(has)

\* C22: for every non-empty list of records with valid levels,
\* generate_risk_report returns total_analyses = the number of records,
\* scam_count = the number of records flagged is_scam, safe_count the
\* rest, per-level counts that sum to the total, the mean score rounded to
\* two decimals, and most_common_risk = the level with the largest count,
\* the first of LOW, MEDIUM, HIGH, CRITICAL among equals.
C22_RiskReportTotals ==
  ret.op = "generate_risk_report" /\ Len(ret.analyses) > 0
  => LET report == ret.value
         n == Len(ret.analyses)
         order == <<"LOW", "MEDIUM", "HIGH", "CRITICAL">>
         flagged(a) == a.is_scam
         total_risk_score == SumSeq([k \in 1..n |-> ret.analyses[k].risk_score])
         position(level) == CHOOSE i \in 1..4 : order[i] = level
     IN /\ report.total_analyses = n
        /\ report.scam_count = CountWhere(flagged)
        /\ report.scam_count + report.safe_count = n
        /\ \A i \in 1..4 : report.risk_distribution[order[i]] = WithLevel(order[i])
        /\ report.risk_distribution["LOW"] + report.risk_distribution["MEDIUM"]
             + report.risk_distribution["HIGH"] + report.risk_distribution["CRITICAL"] = n
        /\ 2 * (report.average_risk_score * n - total_risk_score) <= n
        /\ 2 * (total_risk_score - report.average_risk_score * n) <= n
        /\ \A i \in 1..4 : WithLevel(order[i]) <= WithLevel(report.most_common_risk)
        /\ \A i \in 1..4 : WithLevel(order[i]) = WithLevel(report.most_common_risk)
                             => position(report.most_common_risk) <= i

\* C22 witness: a report on three records of which one is LOW, one HIGH
\* and one CRITICAL: LOW is the most common level, the first of three
\* equals
C22_Witness ==
  /\ ret.op = "generate_risk_report"
  /\ Len(ret.analyses) = 3
  /\ WithLevel("LOW") = 1 /\ WithLevel("HIGH") = 1 /\ WithLevel("CRITICAL") = 1
  /\ ret.value.most_common_risk = "LOW"
  /\ ret.value.scam_count = 2
  /\ ret.value.safe_count = 1

\* C24: when assess_overall_risk is given one verdict of analyze_call or
\* analyze_message, the risk_level of the assessment is the risk_level of
\* that verdict.
C24_OneVerdictLevelIsKept ==
  IsAssessment /\ InputCount = 1
  => /\ ret.call_result # None => ret.value.risk_level = ret.call_result.risk_level
     /\ ret.sms_result # None => ret.value.risk_level = ret.sms_result.risk_level

\* the two input scores of the assessment in ret, the smaller and the larger
InputScores == {ret.call_result.risk_score, ret.sms_result.risk_score}
LowerInput == CHOOSE x \in InputScores : \A y \in InputScores : x <= y
HigherInput == CHOOSE x \in InputScores : \A y \in InputScores : y <= x
LevelRank(level) ==
  CASE level = "LOW" -> 0 [] level = "MEDIUM" -> 1 [] level = "HIGH" -> 2 [] level = "CRITICAL" -> 3

C25_ScorerPreconditionsHold ==
  /\ ret.op = "api_analyze_call" /\ ret.status = 200
     => /\ Len(ret.value.analysis.phone_number) > 0
        /\ ret.value.analysis.duration >= 0
        /\ ret.value.analysis.call_frequency >= 1
        /\ ret.request.time_of_day \in TimesOfDay
  /\ ret.op = "api_analyze_sms" /\ ret.status = 200
     => /\ Len(ret.value.analysis.message_text) > 0
        /\ Len(ret.value.analysis.message_text) <= 5000

\* C26: after any interleaving of concurrent save_call_analysis and
\* save_sms_analysis operations, risk_statistics holds at most one row for
\* each pair of an analysis type and a date.
C26_OneStatisticsRowPerTypeAndDay ==
  \A i, j \in 1..Len(db.risk_statistics) :
    (/\ db.risk_statistics[i].analysis_type = db.risk_statistics[j].analysis_type
     /\ db.risk_statistics[i].date = db.risk_statistics[j].date) => i = j

\* the sum of a column over the risk_statistics rows of one analysis type
StatisticsSum(analysis_type, column) ==
  SumSeq([k \in 1..Len(db.risk_statistics) |->
            IF db.risk_statistics[k].analysis_type = analysis_type
            THEN db.risk_statistics[k][column] ELSE 0])

\* every save that was started has committed its statistics
SavesCompleted == \A t \in Threads : thr[t].pc = "idle"

\* C27: after any interleaving of completed save_call_analysis and
\* save_sms_analysis operations, for each analysis type the sum of
\* total_analyzed over its risk_statistics rows equals the number of rows
\* saved in the table of that type, and the sum of scam_detected equals
\* the number of those rows saved with is_scam true.
C27_StatisticsSumsMatchSavedRows ==
  SavesCompleted =>
    \A analysis_type \in {"call", "sms"} :
      LET table == IF analysis_type = "call" THEN db.call_analysis ELSE db.sms_analysis
      IN /\ StatisticsSum(analysis_type, "total_analyzed") = Len(table)
         /\ StatisticsSum(analysis_type, "scam_detected")
              = Cardinality({k \in 1..Len(table) : table[k].is_scam})

\* three saves of calls, scams and others: two of them interleaved so that
\* each inserted a statistics row of its own, the third counted in the
\* first of the two rows, and all of them completed
C27_Witness ==
  /\ SavesCompleted
  /\ Len(db.call_analysis) = 3
  /\ Len(db.risk_statistics) = 2
  /\ \A k \in 1..2 : db.risk_statistics[k].analysis_type = "call"
  /\ db.risk_statistics[1].total_analyzed = 2
  /\ \E k \in 1..3 : db.call_analysis[k].is_scam
  /\ \E k \in 1..3 : ~db.call_analysis[k].is_scam
====
